---- MODULE Spec2Model ----
(***************************************************************************)
(* A model of the scraper core of openslots-mvp (src/tools/scraper):       *)
(*   - Deduplicator / ProviderNormalizer.merge   (normalizers/)            *)
(*   - RateLimiter                               (config/rate_limits.py)   *)
(*   - HttpClient.get                            (utils/http.py)           *)
(*   - RobotsChecker                             (utils/robots.py)         *)
(*   - WebsiteSource.fetch                       (sources/website.py)      *)
(* Text values that the code normalises (name, address, city) are          *)
(* sequences of one-character strings, so that lower-casing, stripping and *)
(* the regular-expression substitutions are computed, not assumed.         *)
(***************************************************************************)
EXTENDS Integers, Sequences, FiniteSets, TLC

VARIABLES
    \* Deduplicator
    index,          \* _index: provider_key -> ScrapedProvider
    phone_index,    \* _phone_index: phone -> provider_key
    url_index,      \* _url_index: url -> provider_key
    addLog,         \* history: the providers passed to add, in order
    lastAdd,        \* history: what the most recent add call did
    index_keys,     \* the keys of _index in insertion order (dicts keep it)
    found,          \* what the most recent find_duplicates call was given and returned
    \* RateLimiter and its callers
    now,            \* time.time(), in ticks of 0.4 s
    last_request,   \* _last_request: domain -> time
    request_counts, \* _request_counts: domain -> int
    daily_counts,   \* _daily_counts: source_type -> int
    failure_counts, \* _failure_counts: domain -> int
    recorded,       \* history: record_failure calls per domain since its last record_success
    lock,           \* _lock: the task holding it, or NoTask
    pc,             \* where each calling task is inside acquire
    call,           \* each task's acquire call: arguments and locals
    ret,            \* how each task's most recent acquire call ended
    \* HttpClient
    http,           \* each task's HttpClient.get call: arguments, locals, history
    \* RobotsChecker
    respect_robots_txt, \* settings.respect_robots_txt
    rnow,           \* datetime.now(), in hours
    robots_cache,   \* _cache: domain -> RobotsCacheEntry
    robots_disk,    \* the files of _cache_dir: domain -> robots.txt and its mtime
    robots_lock,    \* _lock: the task holding it, or NoTask
    rpc,            \* where each task is inside can_fetch
    rcall,          \* each task's can_fetch call: its URL
    rret,           \* how each task's most recent can_fetch call ended
    robots_log,     \* history: the network fetches of robots.txt per domain
    \* WebsiteSource
    web,            \* each task's WebsiteSource.fetch call: URL, stage, result
    \* GooglePlacesSource
    search,         \* one search call: its loops, seen_place_ids, what it yielded
    \* cmd_search
    run             \* one run of the search command: providers, stats, what was saved

varsDedup == <<index, phone_index, url_index, addLog, lastAdd, index_keys, found>>

varsRate == <<now, last_request, request_counts, daily_counts, failure_counts, recorded,
              lock, pc, call, ret>>

varsHttp == <<http>>

varsRobots == <<respect_robots_txt, rnow, robots_cache, robots_disk, robots_lock,
                rpc, rcall, rret, robots_log>>

varsWeb == <<web>>

varsSearch == <<search>>

varsRun == <<run>>

vars == <<varsDedup, varsRate, varsHttp, varsRobots, varsWeb, varsSearch, varsRun>>

\* What the actions of one component leave alone.
exceptDedup == <<varsRate, varsHttp, varsRobots, varsWeb, varsSearch, varsRun>>
exceptRate == <<varsDedup, varsHttp, varsRobots, varsWeb, varsSearch, varsRun>>
exceptHttp == <<varsDedup, varsRobots, varsWeb, varsSearch, varsRun>>
exceptRobots == <<varsDedup, varsRate, varsHttp, varsWeb, varsSearch, varsRun>>
exceptSearch == <<varsDedup, varsRate, varsHttp, varsRobots, varsWeb, varsRun>>
exceptRun == <<varsRate, varsHttp, varsRobots, varsWeb, varsSearch>>

(***************************************************************************)
(* Bounds of the model.                                                    *)
(***************************************************************************)
MaxAdds == 3
\* acquire calls started in one behaviour
MaxCalls == 4
\* ticks the clock runs past StartTime
MaxTime == 6
\* daily_limit of google_places (5000 in RATE_LIMITS), scaled down
DailyLimit == 3
\* the largest failure count the interval formula is evaluated for; the backoff
\* reaches max_delay at 6
MaxFailureCount == 7
\* ticks the clock runs past StartTime while HttpClient.get is followed
MaxHttpTime == 15
\* RobotsChecker(cache_ttl_hours=...), 24 by default
cache_ttl_hours == 3
\* hours the clock of the RobotsChecker runs past RobotsStart
MaxRobotsTime == 4
\* max_results of a search call
MaxResults == 2
\* places on one result page
MaxPageLen == 1
\* NYC_NEIGHBORHOODS, the queries of a category and NYC_SEARCH_POINTS, cut down
NumNeighborhoods == 1
NumQueries == 1
NumSearchPoints == 1
\* urls handed to WebsiteSource.search
MaxUrls == 2
\* results one run of the search command receives
MaxPages == 3

(***************************************************************************)
(* Python values.                                                          *)
(***************************************************************************)
\* Python's None for an Optional[str] field.
None == "<None>"

\* Truthiness of an Optional[str]: None and "" are falsy.
Truthy(v) == v # None /\ v # ""

\* `a or b` on Optional[str] operands.
OrStr(a, b) == IF Truthy(a) THEN a ELSE b

\* `a or b` on str / list operands held as sequences.
OrSeq(a, b) == IF a # <<>> THEN a ELSE b

Max2(a, b) == IF a >= b THEN a ELSE b

(***************************************************************************)
(* Characters and the string operations of utils/hash.py.                  *)
(***************************************************************************)
UPPER == <<"A","B","C","D","E","F","G","H","I","J","K","L","M","N","O","P","Q","R","S","T","U","V","W","X","Y","Z">>
LOWER == <<"a","b","c","d","e","f","g","h","i","j","k","l","m","n","o","p","q","r","s","t","u","v","w","x","y","z">>
DIGITS == <<"0","1","2","3","4","5","6","7","8","9">>

Range(s) == {s[i] : i \in DOMAIN s}

\* str.lower() on one character.
LowerChar(c) ==
    IF c \in Range(UPPER)
    THEN LOWER[CHOOSE i \in DOMAIN UPPER : UPPER[i] = c]
    ELSE c

\* str.lower()
StrLower(s) == [i \in DOMAIN s |-> LowerChar(s[i])]

\* regex class \w
IsWordChar(c) == c \in Range(UPPER) \cup Range(LOWER) \cup Range(DIGITS) \cup {"_"}

\* regex class \s
IsSpace(c) == c \in {" ", "\t", "\n"}

RECURSIVE LStrip(_)
LStrip(s) == IF s # <<>> /\ IsSpace(Head(s)) THEN LStrip(Tail(s)) ELSE s

RECURSIVE RStrip(_)
RStrip(s) ==
    IF s # <<>> /\ IsSpace(s[Len(s)]) THEN RStrip(SubSeq(s, 1, Len(s) - 1)) ELSE s

\* str.strip()
StrStrip(s) == RStrip(LStrip(s))

\* re.sub(r"[^\w\s]", "", s)
RemovePunct(s) == SelectSeq(s, LAMBDA c : IsWordChar(c) \/ IsSpace(c))

\* Whether the word `pat` matches at position i of s between two \b boundaries.
WordAt(s, i, pat) ==
    /\ i + Len(pat) - 1 <= Len(s)
    /\ SubSeq(s, i, i + Len(pat) - 1) = pat
    /\ (i = 1 \/ ~IsWordChar(s[i - 1]))
    /\ (i + Len(pat) > Len(s) \/ ~IsWordChar(s[i + Len(pat)]))

\* re.sub(r"\b<pat>\b", rep, s): leftmost non-overlapping matches, from position i.
RECURSIVE SubWordFrom(_, _, _, _)
SubWordFrom(s, i, pat, rep) ==
    IF i > Len(s) THEN <<>>
    ELSE IF WordAt(s, i, pat)
         THEN rep \o SubWordFrom(s, i + Len(pat), pat, rep)
         ELSE <<s[i]>> \o SubWordFrom(s, i + 1, pat, rep)

SubWord(s, pat, rep) == SubWordFrom(s, 1, pat, rep)

\* re.sub(r"\s+", " ", s), from position i.
RECURSIVE CollapseSpaceFrom(_, _)
CollapseSpaceFrom(s, i) ==
    IF i > Len(s) THEN <<>>
    ELSE IF IsSpace(s[i])
         THEN IF i > 1 /\ IsSpace(s[i - 1])
              THEN CollapseSpaceFrom(s, i + 1)
              ELSE <<" ">> \o CollapseSpaceFrom(s, i + 1)
         ELSE <<s[i]>> \o CollapseSpaceFrom(s, i + 1)

CollapseSpace(s) == CollapseSpaceFrom(s, 1)

\* The replacements table of normalize_address, in insertion order.
AddressReplacements == <<
    << <<"s","t","r","e","e","t">>, <<"s","t">> >>,
    << <<"a","v","e","n","u","e">>, <<"a","v","e">> >>,
    << <<"b","o","u","l","e","v","a","r","d">>, <<"b","l","v","d">> >>,
    << <<"d","r","i","v","e">>, <<"d","r">> >>,
    << <<"r","o","a","d">>, <<"r","d">> >>,
    << <<"l","a","n","e">>, <<"l","n">> >>,
    << <<"c","o","u","r","t">>, <<"c","t">> >>,
    << <<"p","l","a","c","e">>, <<"p","l">> >>,
    << <<"s","u","i","t","e">>, <<"s","t","e">> >>,
    << <<"a","p","a","r","t","m","e","n","t">>, <<"a","p","t">> >>,
    << <<"n","o","r","t","h">>, <<"n">> >>,
    << <<"s","o","u","t","h">>, <<"s">> >>,
    << <<"e","a","s","t">>, <<"e">> >>,
    << <<"w","e","s","t">>, <<"w">> >> >>

RECURSIVE ApplyReplacements(_, _)
ApplyReplacements(s, k) ==
    IF k > Len(AddressReplacements) THEN s
    ELSE ApplyReplacements(
             SubWord(s, AddressReplacements[k][1], AddressReplacements[k][2]), k + 1)

\* normalize_address(address)
normalize_address(address) ==
    CollapseSpace(ApplyReplacements(StrStrip(StrLower(address)), 1))

\* "".join(chars): the Python string of a sequence of characters.
RECURSIVE Str(_)
Str(s) == IF s = <<>> THEN "" ELSE Head(s) \o Str(Tail(s))

\* re.sub(r"[^\d+]", "", phone)
DigitsAndPlus(phone) == SelectSeq(phone, LAMBDA c : c \in Range(DIGITS) \cup {"+"})

\* normalize_phone without the branch for 11 digits with a leading 1.
normalize_phone_ten_only(phone) ==
    LET digits == DigitsAndPlus(phone) IN
    IF digits # <<>> /\ Head(digits) = "+" THEN digits
    ELSE IF Len(digits) = 10 THEN <<"+", "1">> \o digits
    ELSE digits

\* normalize_phone(phone)
normalize_phone(phone) ==
    LET digits == DigitsAndPlus(phone) IN
    IF digits # <<>> /\ Head(digits) = "+" THEN digits
    ELSE IF Len(digits) = 10 THEN <<"+", "1">> \o digits
    ELSE IF Len(digits) = 11 /\ Head(digits) = "1" THEN <<"+">> \o digits
    ELSE digits

\* hashlib.sha256(key_string).hexdigest()[:16]: the digest is modelled as
\* collision-free on the key strings, so a key is identified by the string hashed.
Sha256Hex16(key_string) == <<"sha256:16">> \o key_string

\* generate_provider_key(name, address, city)
generate_provider_key(name, address, city) ==
    LET normalized_name    == StrStrip(RemovePunct(StrLower(name)))
        normalized_address == normalize_address(address)
        normalized_city    == StrStrip(StrLower(city))
    IN  Sha256Hex16(normalized_name \o <<"|">> \o normalized_address
                    \o <<"|">> \o normalized_city)

(***************************************************************************)
(* ProviderNormalizer.merge                                                *)
(***************************************************************************)
\* The key function of the max() calls: {"GOOGLE_MAPS": 3, ...}.get(t, 0)
PriorityKey(t) ==
    CASE t = "GOOGLE_MAPS" -> 3
      [] t = "WEBSITE"     -> 2
      [] t = "DIRECTORY"   -> 1
      [] t = "SEARCH"      -> 0
      [] OTHER             -> 0

\* The int 0 that max(..., default=0) returns for an empty sources list.
IntZero == "<int 0>"

\* max((s.type.value for s in sources), default=0, key=...): the first element whose
\* key is maximal. The value returned is the type string itself, not its key.
MaxSourceType(sources) ==
    IF sources = <<>> THEN IntZero
    ELSE LET i == CHOOSE i \in DOMAIN sources :
                    /\ \A j \in DOMAIN sources :
                           PriorityKey(sources[j].type) <= PriorityKey(sources[i].type)
                    /\ \A j \in 1..(i - 1) :
                           PriorityKey(sources[j].type) < PriorityKey(sources[i].type)
         IN  sources[i].type

\* Python's ordering of the source type strings (str compares lexicographically).
LexRank(t) ==
    CASE t = "DIRECTORY"   -> 1
      [] t = "GOOGLE_MAPS" -> 2
      [] t = "SEARCH"      -> 3
      [] t = "WEBSITE"     -> 4

\* `new_priority > existing_priority`: "TypeError" when a str meets the int 0.
PyGreater(a, b) ==
    IF a = IntZero /\ b = IntZero THEN "False"
    ELSE IF a = IntZero \/ b = IntZero THEN "TypeError"
    ELSE IF LexRank(a) > LexRank(b) THEN "True" ELSE "False"

\* The comparison on line 177 for a pair of records.
NewIsHigher(existing, new) ==
    PyGreater(MaxSourceType(new.sources), MaxSourceType(existing.sources))

\* Whether merge(existing, new) raises.
MergeRaises(existing, new) == NewIsHigher(existing, new) = "TypeError"

\* The record built on lines 183-204 from base and secondary.
Coalesce(base, secondary) ==
    [ name        |-> OrSeq(base.name, secondary.name),
      address     |-> OrSeq(base.address, secondary.address),
      city        |-> OrSeq(base.city, secondary.city),
      website_url |-> OrStr(base.website_url, secondary.website_url),
      phone       |-> OrStr(base.phone, secondary.phone),
      email       |-> OrStr(base.email, secondary.email),
      services    |-> OrSeq(base.services, secondary.services),
      sources     |-> base.sources \o secondary.sources,
      confidence  |-> Max2(base.confidence, secondary.confidence) ]

\* merge with the incoming record always the base.
mergeNewestWins(existing, new) == Coalesce(new, existing)

\* merge(existing, new), where it does not raise.
merge(existing, new) ==
    IF NewIsHigher(existing, new) = "True"
    THEN Coalesce(new, existing)
    ELSE Coalesce(existing, new)

(***************************************************************************)
(* The candidate providers the model feeds to Deduplicator.add.            *)
(***************************************************************************)
Provider(name, address, city, phone, website_url, email, services, sources, confidence) ==
    [ name |-> name, address |-> address, city |-> city,
      website_url |-> website_url, phone |-> phone, email |-> email,
      services |-> services, sources |-> sources, confidence |-> confidence ]

Src(type, url) == [type |-> type, url |-> url]

\* Scenario A of the specification (providers built as in the tests: no sources).
ScnA1 ==
    Provider(<<"T","e","s","t"," ","S","p","a">>,
             <<"1","2","3"," ","M","a","i","n"," ","S","t">>,
             <<"M","i","a","m","i">>,
             None, None, None, <<>>, <<>>, 10)
ScnA2 ==
    Provider(<<"T","E","S","T"," ","S","P","A">>,
             <<"1","2","3"," ","M","A","I","N"," ","S","T">>,
             <<"M","I","A","M","I">>,
             "+13051234567", None, None, <<>>, <<>>, 10)
ScnA3 ==
    Provider(<<"T","e","s","t"," ","S","p","a"," ","W","e","l","l","n","e","s","s">>,
             <<"4","5","6"," ","O","t","h","e","r"," ","S","t">>,
             <<"M","i","a","m","i">>,
             "+13051234567", None, None, <<>>, <<>>, 10)

\* One business seen by the website source and by the map API, and once with no
\* provenance at all.
ZenWeb ==
    Provider(<<"Z","e","n"," ","S","p","a">>,
             <<"1"," ","E","l","m"," ","S","t","r","e","e","t">>,
             <<"D","o","r","a","l">>,
             "+13050000001", "https://zen.example", "", <<"Massage">>,
             <<Src("WEBSITE", "https://zen.example")>>, 8)
ZenMaps ==
    Provider(<<"Z","E","N"," ","S","P","A","!">>,
             <<"1"," "," ","E","L","M"," ","S","T">>,
             <<" ","D","O","R","A","L"," ">>,
             "+13050000002", None, "info@zen.example", <<>>,
             <<Src("GOOGLE_MAPS", "places/zen")>>, 10)
ZenBare ==
    Provider(<<"z","e","n"," ","s","p","a">>,
             <<"1"," ","e","l","m"," ","s","t">>,
             <<"d","o","r","a","l">>,
             None, None, None, <<>>, <<>>, 10)

\* A second business, and a directory listing that carries the first one's phone
\* and the second one's website.
BayWeb ==
    Provider(<<"B","a","y"," ","N","a","i","l","s">>,
             <<"9"," ","B","a","y"," ","R","o","a","d">>,
             <<"D","o","r","a","l">>,
             "+13050000003", "https://bay.example", None, <<"Manicure">>,
             <<Src("WEBSITE", "https://bay.example")>>, 9)
AnnexDir ==
    Provider(<<"Z","e","n"," ","A","n","n","e","x">>,
             <<"2"," ","O","a","k"," ","A","v","e">>,
             <<"D","o","r","a","l">>,
             "+13050000001", "https://bay.example", None, <<>>,
             <<Src("DIRECTORY", "https://dir.example/zen-annex")>>, 6)

\* Two later sightings of the first business by the website source: one with
\* other values in the fields the first sighting filled, one with nearly none.
ZenWebLater ==
    Provider(<<"Z","e","n"," ","S","p","a">>,
             <<"1"," ","E","l","m"," ","S","t">>,
             <<"D","o","r","a","l">>,
             "+13050000004", None, "later@zen.example", <<"Facial">>,
             <<Src("WEBSITE", "https://zen.example/about")>>, 7)
ZenWebStub ==
    Provider(<<"z","e","n"," ","s","p","a">>,
             <<"1"," ","e","l","m"," ","s","t">>,
             <<"d","o","r","a","l">>,
             None, None, None, <<>>,
             <<Src("WEBSITE", "https://zen.example/contact")>>, 5)

\* provider1 of test_find_duplicates (tests/test_normalizers.py:227-251).
AmazingSpa ==
    Provider(<<"A","m","a","z","i","n","g"," ","S","p","a">>,
             <<"1","2","3"," ","M","a","i","n"," ","S","t">>,
             <<"M","i","a","m","i">>,
             "+13051234567", None, None, <<>>, <<>>, 10)

\* provider2 of test_find_duplicates.
AmazingWellness ==
    Provider(<<"A","m","a","z","i","n","g"," ","S","p","a"," ","&"," ","W","e","l","l","n","e","s","s">>,
             <<"4","5","6"," ","O","t","h","e","r"," ","S","t">>,
             <<"M","i","a","m","i">>,
             None, None, None, <<>>, <<>>, 10)

\* The words of Amazing Spa in another case, at another address.
AmazingShout ==
    Provider(<<"A","M","A","Z","I","N","G"," "," ","S","P","A">>,
             <<"9"," ","B","a","y"," ","R","d">>,
             <<"m","i","a","m","i">>,
             "+13050000009", "https://amazing.example", None, <<>>, <<>>, 10)

\* The phone of one record and the website of another.
AmazingAnnex ==
    Provider(<<"A","n","n","e","x">>,
             <<"2"," ","O","a","k"," ","A","v","e">>,
             <<"D","o","r","a","l">>,
             "+13051234567", "https://amazing.example", None, <<>>, <<>>, 10)

\* The phone and the website of one record, the name of another.
AmazingTwin ==
    Provider(<<"A","m","a","z","i","n","g"," ","S","p","a">>,
             <<"5"," ","K","e","y"," ","L","n">>,
             <<"M","i","a","m","i">>,
             "+13050000009", "https://amazing.example", None, <<>>, <<>>, 10)

\* Four words of the five of BlueSkyFive: Jaccard 4/5.
BlueSkyFour ==
    Provider(<<"B","l","u","e"," ","S","k","y"," ","D","a","y"," ","S","p","a">>,
             <<"7"," ","P","i","n","e"," ","S","t">>,
             <<"M","i","a","m","i">>,
             None, None, None, <<>>, <<>>, 10)

\* Five words.
BlueSkyFive ==
    Provider(<<"B","l","u","e"," ","S","k","y"," ","D","a","y"," ","S","p","a"," ","M","i","a","m","i">>,
             <<"8"," ","P","a","l","m"," ","C","t">>,
             <<"M","i","a","m","i">>,
             None, None, None, <<>>, <<>>, 10)

\* The five words of BlueSkyFive and a sixth: Jaccard 5/6.
BlueSkySix ==
    Provider(<<"B","l","u","e"," ","S","k","y"," ","D","a","y"," ","S","p","a"," ","M","i","a","m","i"," ","B","e","a","c","h">>,
             <<"3"," ","S","e","a"," ","D","r">>,
             <<"M","i","a","m","i">>,
             None, None, None, <<>>, <<>>, 10)

\* The providers added to a deduplicator that is asked for duplicates.
FindUniverse == {AmazingSpa, AmazingShout, AmazingAnnex, BlueSkyFive}

\* The providers find_duplicates is asked about.
FindQueries ==
    FindUniverse \cup {AmazingWellness, AmazingTwin, BlueSkyFour, BlueSkySix}
\* The provider of tests/test_utils.py TestGenerateProviderKey and its variants
\* in letter case and in whitespace.
TestSpa ==
    Provider(<<"T","e","s","t"," ","S","p","a">>,
             <<"1","2","3"," ","M","a","i","n"," ","S","t">>,
             <<"M","i","a","m","i">>,
             None, None, None, <<>>, <<>>, 10)

TestSpaUpper ==
    Provider(<<"T","E","S","T"," ","S","P","A">>,
             <<"1","2","3"," ","M","A","I","N"," ","S","T">>,
             <<"M","I","A","M","I">>,
             None, None, None, <<>>, <<>>, 10)

\* Whitespace around every field and a doubled blank inside the address.
TestSpaPadded ==
    Provider(<<" ","T","e","s","t"," ","S","p","a"," ">>,
             <<" ","1","2","3"," "," ","M","a","i","n"," ","S","t"," ">>,
             <<" ","M","i","a","m","i"," ">>,
             None, None, None, <<>>, <<>>, 10)

\* A doubled blank inside the name.
TestSpaWide ==
    Provider(<<"T","e","s","t"," "," ","S","p","a">>,
             <<"1","2","3"," ","M","a","i","n"," ","S","t">>,
             <<"M","i","a","m","i">>,
             None, None, None, <<>>, <<>>, 10)

OtherSpa ==
    Provider(<<"O","t","h","e","r"," ","S","p","a">>,
             <<"4","5","6"," ","O","a","k"," ","A","v","e">>,
             <<"M","i","a","m","i">>,
             None, None, None, <<>>, <<>>, 10)

\* The providers added when the identity key is examined.
KeyUniverse == {TestSpa, TestSpaUpper, TestSpaPadded, TestSpaWide, OtherSpa}

\* The formattings of one number in tests/test_utils.py TestNormalizePhone, the
\* same with a country code in front of dashes and parentheses, and a second
\* number.
PhoneFormats ==
    { <<"3","0","5","1","2","3","4","5","6","7">>,
      <<"3","0","5","-","1","2","3","-","4","5","6","7">>,
      <<"(","3","0","5",")"," ","1","2","3","-","4","5","6","7">>,
      <<"+","1","3","0","5","1","2","3","4","5","6","7">>,
      <<"1","3","0","5","1","2","3","4","5","6","7">>,
      <<"1","-","3","0","5","-","1","2","3","-","4","5","6","7">>,
      <<"+","1"," ","(","3","0","5",")"," ","1","2","3","-","4","5","6","7">>,
      <<"3","0","5","-","1","2","3","-","4","5","6","8">> }

\* The test provider with a phone number written as `format`.
PhoneProvider(format) ==
    Provider(<<"T","e","s","t"," ","S","p","a">>,
             <<"1","2","3"," ","M","a","i","n"," ","S","t">>,
             <<"M","i","a","m","i">>,
             Str(format), None, None, <<>>, <<>>, 10)

\* The providers added when phone formats are examined.
PhoneUniverse == {PhoneProvider(f) : f \in PhoneFormats}

(***************************************************************************)
(* ProviderNormalizer.normalize (normalizers/provider.py).                 *)
(***************************************************************************)
\* str.upper() on one character.
UpperChar(c) ==
    IF c \in Range(LOWER)
    THEN UPPER[CHOOSE i \in DOMAIN LOWER : LOWER[i] = c]
    ELSE c

IsLetter(c) == c \in Range(UPPER) \cup Range(LOWER)

\* str.title(): a letter that follows no letter is upper-cased, every other
\* letter lower-cased.
StrTitle(s) ==
    [i \in DOMAIN s |->
        IF i = 1 \/ ~IsLetter(s[i - 1]) THEN UpperChar(s[i]) ELSE LowerChar(s[i])]

\* str.isupper(), str.islower()
StrIsUpper(s) ==
    (\E i \in DOMAIN s : IsLetter(s[i])) /\ \A i \in DOMAIN s : s[i] \notin Range(LOWER)
StrIsLower(s) ==
    (\E i \in DOMAIN s : IsLetter(s[i])) /\ \A i \in DOMAIN s : s[i] \notin Range(UPPER)

\* s[:-n]
DropLast(s, n) == SubSeq(s, 1, Len(s) - n)

\* s.endswith(suffix)
EndsWith(s, suffix) ==
    Len(suffix) <= Len(s) /\ SubSeq(s, Len(s) - Len(suffix) + 1, Len(s)) = suffix

\* s.startswith(prefix)
StartsWith(s, prefix) == Len(prefix) <= Len(s) /\ SubSeq(s, 1, Len(prefix)) = prefix

\* The alternatives of the first suffix pattern.
CompanySuffixes ==
    { <<"l","l","c">>, <<"i","n","c">>, <<"c","o","r","p">>, <<"l","t","d">>,
      <<"l","l","p">> }

\* re.sub(r",?\s*(llc|inc|corp|ltd|llp)\.?$", "", name, flags=re.IGNORECASE)
RemoveCompanySuffix(name) ==
    LET t == IF name # <<>> /\ name[Len(name)] = "." THEN DropLast(name, 1) ELSE name
        ws == {w \in CompanySuffixes : EndsWith(StrLower(t), w)}
    IN  IF ws = {} THEN name
        ELSE LET w == CHOOSE w \in ws : TRUE
                 head == RStrip(DropLast(t, Len(w)))
             IN  IF head # <<>> /\ head[Len(head)] = ","
                 THEN DropLast(head, 1)
                 ELSE head

\* re.sub(r"\s*-\s*home$", "", name, flags=re.IGNORECASE)
RemoveHomeSuffix(name) ==
    IF ~EndsWith(StrLower(name), <<"h","o","m","e">>) THEN name
    ELSE LET head == RStrip(DropLast(name, 4)) IN
         IF head # <<>> /\ head[Len(head)] = "-"
         THEN RStrip(DropLast(head, 1))
         ELSE name

\* re.sub(r"\s*\|\s*.*$", "", name, flags=re.IGNORECASE)
RemoveAfterBar(name) ==
    IF "|" \notin Range(name) THEN name
    ELSE LET k == CHOOSE k \in DOMAIN name :
                      name[k] = "|" /\ \A j \in 1..(k - 1) : name[j] # "|"
         IN  RStrip(SubSeq(name, 1, k - 1))

\* ProviderNormalizer._normalize_name(name)
normalize_name(name) ==
    IF name = <<>> THEN name
    ELSE LET collapsed == CollapseSpace(StrStrip(name))
             cut == RemoveAfterBar(RemoveHomeSuffix(RemoveCompanySuffix(collapsed)))
             cased == IF StrIsUpper(cut) \/ StrIsLower(cut) THEN StrTitle(cut) ELSE cut
         IN  StrStrip(cased)

\* ProviderNormalizer._normalize_city(city)
normalize_city(city) ==
    IF city = <<>> THEN city ELSE StrTitle(CollapseSpace(StrStrip(city)))

RECURSIVE RStripSlash(_)
RStripSlash(s) ==
    IF s # <<>> /\ s[Len(s)] = "/" THEN RStripSlash(DropLast(s, 1)) ELSE s

\* ProviderNormalizer._normalize_url(url)
normalize_url_scheme(url) ==
    LET stripped == StrStrip(url)
        with_scheme ==
            IF StartsWith(stripped, <<"h","t","t","p",":","/","/">>)
               \/ StartsWith(stripped, <<"h","t","t","p","s",":","/","/">>)
            THEN stripped
            ELSE <<"h","t","t","p","s",":","/","/">> \o stripped
    IN  RStripSlash(with_scheme)

\* The phone numbers, urls and e-mail addresses, character by character, that the
\* records handed to normalize carry.
KnownStrings ==
    PhoneFormats \cup
    { <<"h","t","t","p","s",":","/","/","z","e","n",".","e","x","a","m","p","l","e","/">>,
      <<"z","e","n",".","e","x","a","m","p","l","e">>,
      <<"I","n","f","o","@","z","e","n",".","e","x","a","m","p","l","e"," ">> }

\* The characters of a string field.
Chars(v) == CHOOSE f \in KnownStrings : Str(f) = v

\* ProviderNormalizer.normalize(provider); the record has no state field.
normalize(provider) ==
    [provider EXCEPT
        !.name = normalize_name(@),
        !.address = normalize_address(@),
        !.city = normalize_city(@),
        !.phone = IF Truthy(@) THEN Str(normalize_phone(Chars(@))) ELSE @,
        !.email = IF Truthy(@) THEN Str(StrStrip(StrLower(Chars(@)))) ELSE @,
        !.website_url = IF Truthy(@) THEN Str(normalize_url_scheme(Chars(@))) ELSE @]

\* What GooglePlacesSource.search hands to cmd_search: one business under two
\* place ids, written differently; a second business with the phone of the first
\* in another format; a third business.
RunZen ==
    Provider(<<"Z","e","n"," ","S","p","a">>,
             <<"1"," ","E","l","m"," ","S","t","r","e","e","t">>,
             <<"D","o","r","a","l">>,
             "305-123-4567", None, None, <<>>,
             <<Src("GOOGLE_MAPS", "p1")>>, 9)
RunZenAgain ==
    Provider(<<"Z","E","N"," ","S","P","A"," ","L","L","C">>,
             <<"1"," ","E","l","m"," ","S","t">>,
             <<"d","o","r","a","l">>,
             None, "zen.example", None, <<>>,
             <<Src("GOOGLE_MAPS", "p2")>>, 9)
RunZenAnnex ==
    Provider(<<"Z","e","n"," ","A","n","n","e","x">>,
             <<"2"," ","O","a","k"," ","A","v","e">>,
             <<"D","o","r","a","l">>,
             "(305) 123-4567", None, "Info@zen.example ", <<>>,
             <<Src("GOOGLE_MAPS", "p3")>>, 9)
RunBay ==
    Provider(<<"B","a","y"," ","S","p","a">>,
             <<"9"," ","B","a","y"," ","R","d">>,
             <<"M","i","a","m","i">>,
             None, "https://zen.example/", None, <<>>,
             <<Src("GOOGLE_MAPS", "p4")>>, 9)

RunUniverse == {RunZen, RunZenAgain, RunZenAnnex, RunBay}


Universe ==
    {ScnA1, ScnA2, ScnA3, ZenWeb, ZenMaps, ZenBare, BayWeb, AnnexDir,
     ZenWebLater, ZenWebStub}

KeyOf(p) == generate_provider_key(p.name, p.address, p.city)

(***************************************************************************)
(* Deduplicator                                                            *)
(***************************************************************************)
\* d[k] = v on a Python dict held as a function.
Put(d, k, v) == [x \in (DOMAIN d) \cup {k} |-> IF x = k THEN v ELSE d[x]]

EmptyDict == <<>>

\* FindMatch with the URL index consulted before the phone index.
FindMatchUrlFirst(idx, pidx, uidx, provider) ==
    LET key == KeyOf(provider) IN
    IF key \in DOMAIN idx
    THEN [how |-> "exact", key |-> key]
    ELSE IF Truthy(provider.website_url) /\ provider.website_url \in DOMAIN uidx
    THEN [how |-> "url", key |-> uidx[provider.website_url]]
    ELSE IF Truthy(provider.phone) /\ provider.phone \in DOMAIN pidx
    THEN [how |-> "phone", key |-> pidx[provider.phone]]
    ELSE [how |-> "new", key |-> key]

\* The branch add takes for a provider (lines 55, 62, 70, 77) and the store key it
\* works on.
FindMatch(idx, pidx, uidx, provider) ==
    LET key == KeyOf(provider) IN
    IF key \in DOMAIN idx
    THEN [how |-> "exact", key |-> key]
    ELSE IF Truthy(provider.phone) /\ provider.phone \in DOMAIN pidx
    THEN [how |-> "phone", key |-> pidx[provider.phone]]
    ELSE IF Truthy(provider.website_url) /\ provider.website_url \in DOMAIN uidx
    THEN [how |-> "url", key |-> uidx[provider.website_url]]
    ELSE [how |-> "new", key |-> key]

\* No find_duplicates call since the last add.
NoFound == [called |-> FALSE]

\* StoreMerged that also files the merged record under the incoming provider's key.
StoreMergedBothKeys(idx, existing_key, key, merged) ==
    Put(Put(idx, existing_key, merged), key, merged)

\* StoreMerged that files the merged record under the incoming provider's key and
\* drops the key it was held under.
StoreMergedRekeyed(idx, existing_key, key, merged) ==
    [x \in ((DOMAIN idx) \ {existing_key}) \cup {key} |->
        IF x = key THEN merged ELSE idx[x]]

\* self._index[existing_key] = merged (lines 58, 66, 74); `key` is the incoming
\* provider's own key, which the code does not store.
StoreMerged(idx, existing_key, key, merged) == Put(idx, existing_key, merged)

\* Deduplicator.add(provider): what the call does to the deduplicator.
AddCall(provider) ==
    /\ Len(addLog) < MaxAdds
    /\ addLog' = Append(addLog, provider)
    /\ found' = NoFound
    /\ LET m == FindMatch(index, phone_index, url_index, provider) IN
       IF m.how = "new"
       THEN /\ index' = Put(index, m.key, provider)
            /\ index_keys' = Append(index_keys, m.key)
            /\ phone_index' = IF Truthy(provider.phone)
                              THEN Put(phone_index, provider.phone, m.key)
                              ELSE phone_index
            /\ url_index' = IF Truthy(provider.website_url)
                            THEN Put(url_index, provider.website_url, m.key)
                            ELSE url_index
            /\ lastAdd' = [how |-> "new", key |-> m.key, raised |-> FALSE,
                           is_new |-> TRUE, result |-> provider]
       ELSE IF MergeRaises(index[m.key], provider)
       THEN \* the TypeError leaves add before any assignment
            /\ UNCHANGED <<index, phone_index, url_index, index_keys>>
            /\ lastAdd' = [how |-> m.how, key |-> m.key, raised |-> TRUE]
       ELSE LET merged == merge(index[m.key], provider) IN
            /\ index' = StoreMerged(index, m.key, KeyOf(provider), merged)
            /\ UNCHANGED <<phone_index, url_index, index_keys>>
            /\ lastAdd' = [how |-> m.how, key |-> m.key, raised |-> FALSE,
                           is_new |-> FALSE, result |-> merged,
                           existing |-> index[m.key]]

\* Deduplicator.add(provider), called on its own.
Add(provider) == AddCall(provider) /\ UNCHANGED exceptDedup

(***************************************************************************)
(* Deduplicator.find_duplicates (normalizers/dedup.py). A similarity score *)
(* is the fraction num/den, so that 0.8, 0.85, 0.9 and the Jaccard         *)
(* quotients compare exactly.                                              *)
(***************************************************************************)
\* str.split(): the maximal runs of non-whitespace characters from position i on,
\* `word` being the run read so far.
RECURSIVE SplitFrom(_, _, _)
SplitFrom(s, i, word) ==
    IF i > Len(s) THEN (IF word = <<>> THEN {} ELSE {word})
    ELSE IF IsSpace(s[i])
         THEN (IF word = <<>> THEN {} ELSE {word}) \cup SplitFrom(s, i + 1, <<>>)
         ELSE SplitFrom(s, i + 1, Append(word, s[i]))

\* set(name.lower().split())
Tokens(name) == SplitFrom(StrLower(name), 1, <<>>)

Score(num, den) == [num |-> num, den |-> den]

\* a > b on two scores.
ScoreGreater(a, b) == a.num * b.den > b.num * a.den

\* _name_similarity(name1, name2)
name_similarity(name1, name2) ==
    LET n1 == Tokens(name1)
        n2 == Tokens(name2)
    IN  IF n1 = {} \/ n2 = {} THEN Score(0, 1)
        ELSE Score(Cardinality(n1 \cap n2), Cardinality(n1 \cup n2))

\* A fuzzy match needs only a similarity of 0.8.
FuzzyThresholdInclusive(score) == ~ScoreGreater(Score(4, 5), score)

\* name_similarity > 0.8
FuzzyThreshold(score) == ScoreGreater(score, Score(4, 5))

DuplicateMatch(provider, similarity_score, match_reasons) ==
    [provider |-> provider, similarity_score |-> similarity_score,
     match_reasons |-> match_reasons]

\* any(m.provider == existing for m in matches)
AlreadyMatched(matches, existing) ==
    \E i \in DOMAIN matches : matches[i].provider = existing

\* Lines 108-115.
PhoneMatches(idx, pidx, provider) ==
    IF Truthy(provider.phone) /\ provider.phone \in DOMAIN pidx
    THEN <<DuplicateMatch(idx[pidx[provider.phone]], Score(9, 10), <<"phone">>)>>
    ELSE <<>>

\* Lines 118-125.
UrlMatches(idx, uidx, provider, matches) ==
    IF /\ Truthy(provider.website_url)
       /\ provider.website_url \in DOMAIN uidx
       /\ ~AlreadyMatched(matches, idx[uidx[provider.website_url]])
    THEN Append(matches,
                DuplicateMatch(idx[uidx[provider.website_url]], Score(17, 20),
                               <<"website">>))
    ELSE matches

\* Lines 128-137: the loop over self._index.items(), from the k-th key inserted.
RECURSIVE FuzzyMatches(_, _, _, _, _)
FuzzyMatches(idx, keys, k, provider, matches) ==
    IF k > Len(keys) THEN matches
    ELSE LET existing == idx[keys[k]]
             similarity == name_similarity(provider.name, existing.name)
         IN  FuzzyMatches(idx, keys, k + 1, provider,
                 IF /\ StrLower(existing.city) = StrLower(provider.city)
                    /\ FuzzyThreshold(similarity)
                    /\ ~AlreadyMatched(matches, existing)
                 THEN Append(matches,
                             DuplicateMatch(existing, similarity, <<"fuzzy_name">>))
                 ELSE matches)

\* m put into a list sorted by falling score, behind the entries that score the
\* same.
RECURSIVE InsertByScore(_, _)
InsertByScore(sorted, m) ==
    IF sorted = <<>> THEN <<m>>
    ELSE IF ScoreGreater(m.similarity_score, Head(sorted).similarity_score)
         THEN <<m>> \o sorted
         ELSE <<Head(sorted)>> \o InsertByScore(Tail(sorted), m)

\* sorted(matches, key=lambda m: m.similarity_score, reverse=True): a stable sort.
RECURSIVE SortedByScore(_)
SortedByScore(matches) ==
    IF matches = <<>> THEN <<>>
    ELSE InsertByScore(SortedByScore(SubSeq(matches, 1, Len(matches) - 1)),
                       matches[Len(matches)])

\* find_duplicates(provider) on a deduplicator whose three indexes are idx, pidx
\* and uidx, the keys of idx having been inserted in the order of `keys`.
find_duplicates(idx, pidx, uidx, keys, provider) ==
    LET key == KeyOf(provider)
    IN  IF key \in DOMAIN idx
        THEN <<DuplicateMatch(idx[key], Score(1, 1), <<"exact_key">>)>>
        ELSE SortedByScore(
                 FuzzyMatches(idx, keys, 1, provider,
                     UrlMatches(idx, uidx, provider,
                                PhoneMatches(idx, pidx, provider))))

\* A caller asks for the possible duplicates of `provider`; nothing is stored.
FindDuplicates(provider) ==
    /\ found' = [called |-> TRUE, query |-> provider,
                 matches |-> find_duplicates(index, phone_index, url_index,
                                             index_keys, provider)]
    /\ UNCHANGED <<index, phone_index, url_index, addLog, lastAdd, index_keys>>
    /\ UNCHANGED exceptDedup

\* Deduplicator.count()
count == Cardinality(DOMAIN index)

\* Deduplicator.get_all()
get_all == {index[k] : k \in DOMAIN index}

InitDedup ==
    /\ index = EmptyDict
    /\ phone_index = EmptyDict
    /\ url_index = EmptyDict
    /\ addLog = <<>>
    /\ lastAdd = [how |-> "none"]
    /\ index_keys = <<>>
    /\ found = NoFound

NextDedup == \E provider \in Universe : Add(provider)

(***************************************************************************)
(* RateLimiter (config/rate_limits.py). Time is counted in ticks of 0.4 s, *)
(* the largest unit in which every delay of the modelled source types and  *)
(* every backoff delay is a whole number (1.2 s = 3 ticks, 2 s = 5 ticks). *)
(* asyncio.sleep(t) is taken to return no earlier than t after it started. *)
(***************************************************************************)
\* The 60.0 seconds of line 91, in ticks.
TicksPerMinute == 150

\* time.time() when the process starts: far more than max_delay after the epoch,
\* which is where the defaultdict's 0.0 puts a domain never requested.
StartTime == 200

Tasks == {1, 2}
NoTask == 0
Domains == {"a.example", "b.example"}
SourceTypes == {"google_places", "website"}

\* RATE_LIMITS for the source types modelled; delay_between_requests in ticks
\* (1.2 s, 2.0 s), daily_limit 0 for None.
RATE_LIMITS ==
    [ google_places |-> [requests_per_minute |-> 50, daily_limit |-> DailyLimit,
                         delay_between_requests |-> 3],
      website       |-> [requests_per_minute |-> 10, daily_limit |-> 0,
                         delay_between_requests |-> 5] ]

\* RATE_LIMITS.get(source_type, RATE_LIMITS["website"])
ConfigOf(source_type) ==
    IF source_type \in DOMAIN RATE_LIMITS
    THEN RATE_LIMITS[source_type]
    ELSE RATE_LIMITS["website"]

\* BACKOFF_CONFIG: initial_delay 1.0 s (in half ticks, as it is 2.5 ticks),
\* max_delay 60.0 s in ticks, multiplier 2.0.
BACKOFF_CONFIG == [initial_delay_half_ticks |-> 5, max_delay |-> 150, multiplier |-> 2]

Min2(a, b) == IF a <= b THEN a ELSE b

RECURSIVE Pow(_, _)
Pow(b, n) == IF n = 0 THEN 1 ELSE b * Pow(b, n - 1)

\* No daily limit is ever enforced.
OverDailyLimitNever(config, used) == FALSE

\* The check on line 83 with `>` in place of `>=`.
OverDailyLimitStrict(config, used) ==
    config.daily_limit # 0 /\ used > config.daily_limit

\* config.daily_limit and self._daily_counts[source_type] >= config.daily_limit
OverDailyLimit(config, used) ==
    config.daily_limit # 0 /\ used >= config.daily_limit

\* The interval without the backoff of lines 95-100.
MinIntervalNoBackoff(config, failure_count) ==
    Max2(TicksPerMinute \div config.requests_per_minute, config.delay_between_requests)

\* min_interval as computed on lines 91-103.
MinInterval(config, failure_count) ==
    LET base == TicksPerMinute \div config.requests_per_minute
        with_backoff ==
            IF failure_count > 0
            THEN Max2(base,
                      Min2((BACKOFF_CONFIG.initial_delay_half_ticks
                                * Pow(BACKOFF_CONFIG.multiplier, failure_count)) \div 2,
                           BACKOFF_CONFIG.max_delay))
            ELSE base
    IN  Max2(with_backoff, config.delay_between_requests)

\* A sleep one tick shorter than the time still to wait.
WaitTimeShort(min_interval, elapsed) == min_interval - elapsed - 1

\* wait_time on line 108.
WaitTime(min_interval, elapsed) == min_interval - elapsed

\* The lock released for the duration of the sleep.
LockWhileSleepingNone(task) == NoTask

\* Who holds self._lock while an acquire call sleeps on line 109: the sleep is
\* inside the `async with` block.
LockWhileSleeping(task) == task

\* The locals of a task that is not inside acquire.
NoCall == [source_type |-> "", domain |-> "", failure_count |-> 0, sleep_until |-> 0]

\* The locals of a task that acquire has let through and that is making its
\* request to `domain`.
Requesting(source_type, domain) ==
    [source_type |-> source_type, domain |-> domain, failure_count |-> 0,
     sleep_until |-> 0]

\* Lines 112-114 with the daily count left alone.
UpdateTrackingNoDaily(source_type, domain) ==
    /\ last_request' = [last_request EXCEPT ![domain] = now]
    /\ request_counts' = [request_counts EXCEPT ![domain] = @ + 1]
    /\ daily_counts' = daily_counts

\* Lines 112-114.
UpdateTracking(source_type, domain) ==
    /\ last_request' = [last_request EXCEPT ![domain] = now]
    /\ request_counts' = [request_counts EXCEPT ![domain] = @ + 1]
    /\ daily_counts' = [daily_counts EXCEPT ![source_type] = @ + 1]

\* The acquire calls that have returned or are still inside acquire.
CallsStarted ==
    request_counts["a.example"] + request_counts["b.example"]
        + Cardinality({t \in Tasks : pc[t] \in {"lock_wait", "sleeping"}})

\* Lines 80-114 from the moment the task holds the lock: the daily-limit check, then
\* either the whole of acquire (no wait needed) or everything up to the sleep.
EnterCritical(task, source_type, domain) ==
    LET config == ConfigOf(source_type)
        failure_count == failure_counts[domain]
        min_interval == MinInterval(config, failure_count)
        elapsed == now - last_request[domain]
    IN  IF OverDailyLimit(config, daily_counts[source_type])
        THEN /\ pc' = [pc EXCEPT ![task] = "idle"]
             /\ call' = [call EXCEPT ![task] = NoCall]
             /\ ret' = [ret EXCEPT ![task] = "RateLimitExceeded"]
             /\ UNCHANGED <<last_request, request_counts, daily_counts, lock>>
        ELSE IF elapsed < min_interval
        THEN /\ pc' = [pc EXCEPT ![task] = "sleeping"]
             /\ call' = [call EXCEPT ![task] =
                             [source_type |-> source_type, domain |-> domain,
                              failure_count |-> failure_count,
                              sleep_until |-> now + WaitTime(min_interval, elapsed)]]
             /\ ret' = [ret EXCEPT ![task] = "none"]
             /\ lock' = LockWhileSleeping(task)
             /\ UNCHANGED <<last_request, request_counts, daily_counts>>
        ELSE /\ UpdateTracking(source_type, domain)
             /\ pc' = [pc EXCEPT ![task] = "request"]
             /\ call' = [call EXCEPT ![task] = Requesting(source_type, domain)]
             /\ ret' = [ret EXCEPT ![task] = "ok"]
             /\ UNCHANGED lock

\* acquire(source_type, domain) as called by `task`, up to its first suspension.
\* `async with self._lock` does not suspend the task when the lock is free and
\* nobody waits for it; otherwise the task queues for the lock.
AcquireCall(task, source_type, domain) ==
    /\ IF lock = NoTask /\ \A t \in Tasks : pc[t] # "lock_wait"
       THEN EnterCritical(task, source_type, domain)
       ELSE /\ pc' = [pc EXCEPT ![task] = "lock_wait"]
            /\ call' = [call EXCEPT ![task] =
                            [source_type |-> source_type, domain |-> domain,
                             failure_count |-> 0, sleep_until |-> 0]]
            /\ ret' = [ret EXCEPT ![task] = "none"]
            /\ UNCHANGED <<last_request, request_counts, daily_counts, lock>>
    /\ UNCHANGED <<now, failure_counts, recorded>>

\* A task calls acquire(source_type, domain).
CallAcquire(task, source_type, domain) ==
    /\ pc[task] = "idle"
    /\ CallsStarted < MaxCalls
    /\ AcquireCall(task, source_type, domain)
    /\ UNCHANGED exceptRate

\* A queued task gets the lock.
AcquireEnter(task) ==
    /\ pc[task] = "lock_wait"
    /\ lock = NoTask
    /\ EnterCritical(task, call[task].source_type, call[task].domain)
    /\ UNCHANGED <<now, failure_counts, recorded>>
    /\ UNCHANGED exceptRate

\* The sleep on line 109 is over: lines 112-114, and the lock is released.
AcquireWake(task) ==
    /\ pc[task] = "sleeping"
    /\ now >= call[task].sleep_until
    /\ UpdateTracking(call[task].source_type, call[task].domain)
    /\ lock' = IF lock = task THEN NoTask ELSE lock
    /\ pc' = [pc EXCEPT ![task] = "request"]
    /\ call' = [call EXCEPT ![task] =
                    Requesting(call[task].source_type, call[task].domain)]
    /\ ret' = [ret EXCEPT ![task] = "ok"]
    /\ UNCHANGED <<now, failure_counts, recorded>>
    /\ UNCHANGED exceptRate

\* A record_failure that adds two.
record_failure_twice(counts, domain) == [counts EXCEPT ![domain] = @ + 2]

\* record_success(domain): self._failure_counts[domain] = 0
record_success(counts, domain) == [counts EXCEPT ![domain] = 0]

\* record_failure(domain): self._failure_counts[domain] += 1
record_failure(counts, domain) == [counts EXCEPT ![domain] = @ + 1]

\* The task's request succeeded: RateLimiter.record_success(domain). A caller
\* reports once per request it was let through for (class docstring, lines 55-61).
RecordSuccess(task) ==
    /\ pc[task] = "request"
    /\ failure_counts' = record_success(failure_counts, call[task].domain)
    /\ recorded' = [recorded EXCEPT ![call[task].domain] = 0]
    /\ pc' = [pc EXCEPT ![task] = "idle"]
    /\ call' = [call EXCEPT ![task] = NoCall]
    /\ UNCHANGED <<now, last_request, request_counts, daily_counts, lock, ret>>
    /\ UNCHANGED exceptRate

\* The task's request failed: RateLimiter.record_failure(domain).
RecordFailure(task) ==
    /\ pc[task] = "request"
    /\ failure_counts' = record_failure(failure_counts, call[task].domain)
    /\ recorded' = [recorded EXCEPT ![call[task].domain] = @ + 1]
    /\ pc' = [pc EXCEPT ![task] = "idle"]
    /\ call' = [call EXCEPT ![task] = NoCall]
    /\ UNCHANGED <<now, last_request, request_counts, daily_counts, lock, ret>>
    /\ UNCHANGED exceptRate

\* RateLimiter.reset_daily_counts()
ResetDailyCounts ==
    /\ daily_counts' = [s \in SourceTypes |-> 0]
    /\ UNCHANGED <<now, last_request, request_counts, failure_counts, recorded, lock, pc, call, ret>>
    /\ UNCHANGED exceptRate

\* Time passes.
Tick ==
    /\ now < StartTime + MaxTime
    /\ now' = now + 1
    /\ UNCHANGED <<last_request, request_counts, daily_counts, failure_counts, recorded,
                   lock, pc, call, ret>>
    /\ UNCHANGED exceptRate

\* RateLimiter.__init__, with every task outside acquire.
InitRate ==
    /\ now = StartTime
    /\ last_request = [d \in Domains |-> 0]
    /\ request_counts = [d \in Domains |-> 0]
    /\ daily_counts = [s \in SourceTypes |-> 0]
    /\ failure_counts = [d \in Domains |-> 0]
    /\ recorded = [d \in Domains |-> 0]
    /\ lock = NoTask
    /\ pc = [t \in Tasks |-> "idle"]
    /\ call = [t \in Tasks |-> NoCall]
    /\ ret = [t \in Tasks |-> "none"]

(***************************************************************************)
(* HttpClient.get (utils/http.py), one client task on top of the           *)
(* RateLimiter above.                                                      *)
(***************************************************************************)
HttpTasks == {1}

\* settings.http_max_retries
max_retries == 3

\* What one GET can end in: a response with a status, or an exception.
Outcomes == {"200", "500", "TimeoutError", "ClientError"}

IsResponse(outcome) == outcome \in {"200", "500"}

\* Any response counted as a success, whatever its status.
OkAnyStatus(outcome) == IsResponse(outcome)

\* HttpResponse.ok
Ok(outcome) == outcome = "200"

NoResult == [kind |-> "none", status |-> ""]

\* A task that has never called get.
NoGet ==
    [active |-> FALSE, source_type |-> "", domain |-> "", attempt |-> 0,
     slept_at |-> 0, attempts_made |-> 0, failures_recorded |-> 0,
     all_500 |-> TRUE, result |-> NoResult,
     successes_recorded |-> 0, sleeps |-> 0, last_outcome |-> "none",
     all_exceptions |-> TRUE]

\* get leaves the loop with a response only when the response is ok.
ReturnsResponseOkOnly(response_ok) == response_ok

\* Line 135: `return response` follows the record_success / record_failure call
\* whatever the status.
ReturnsResponse(response_ok) == TRUE

\* No sleep between two attempts.
RetrySleepNone(slept_at, attempt) == TRUE

\* asyncio.sleep(2 ** attempt) on line 147 is over; seconds against ticks of 0.4 s.
RetrySleepOver(slept_at, attempt) ==
    2 * (now - slept_at) >= 5 * Pow(2, attempt)

\* Lines 109-112: one pass of the loop up to the first suspension inside acquire.
\* RateLimitExceeded is caught by neither except clause and ends the get call.
\* RateLimitExceeded handled like the exceptions of lines 137-144.
RateLimitExceededCaught(g) ==
    [g EXCEPT !.failures_recorded = @ + 1, !.slept_at = now, !.sleeps = @ + 1]

\* Lines 109-144: RateLimitExceeded out of acquire is neither asyncio.TimeoutError
\* nor ClientError, so it leaves get through both except clauses.
RateLimitExceededPropagates(g) ==
    [g EXCEPT !.active = FALSE,
              !.result = [kind |-> "RateLimitExceeded", status |-> ""]]

BeginAttempt(task, g) ==
    /\ AcquireCall(task, g.source_type, g.domain)
    /\ http' = [http EXCEPT ![task] =
                   IF ret'[task] = "RateLimitExceeded"
                   THEN RateLimitExceededPropagates(g)
                   ELSE g]

\* A task calls client.get(url, source_type), url being on `domain`.
HttpGet(task, source_type, domain) ==
    /\ ~http[task].active
    /\ pc[task] = "idle"
    /\ CallsStarted < MaxCalls
    /\ BeginAttempt(task, [NoGet EXCEPT !.active = TRUE,
                                        !.source_type = source_type,
                                        !.domain = domain])
    /\ UNCHANGED exceptHttp

\* Lines 115-147: the GET has ended in `outcome`; record_success or record_failure,
\* then return, sleep before the next attempt, or leave the loop and raise.
HttpRespond(task, outcome) ==
    LET g == http[task]
        failed == ~(IsResponse(outcome) /\ Ok(outcome))
        g1 == [g EXCEPT !.attempts_made = @ + 1,
                        !.failures_recorded = IF failed THEN @ + 1 ELSE @,
                        !.all_500 = @ /\ outcome = "500",
                        !.successes_recorded = IF failed THEN @ ELSE @ + 1,
                        !.last_outcome = outcome,
                        !.all_exceptions = @ /\ ~IsResponse(outcome)]
    IN  /\ g.active
        /\ pc[task] = "request"
        /\ failure_counts' = IF failed THEN record_failure(failure_counts, g.domain)
                              ELSE record_success(failure_counts, g.domain)
        /\ recorded' = [recorded EXCEPT ![g.domain] = IF failed THEN @ + 1 ELSE 0]
        /\ call' = [call EXCEPT ![task] = NoCall]
        /\ IF IsResponse(outcome) /\ ReturnsResponse(Ok(outcome))
           THEN /\ http' = [http EXCEPT ![task] =
                               [g1 EXCEPT !.active = FALSE,
                                          !.result = [kind |-> "response",
                                                      status |-> outcome]]]
                /\ pc' = [pc EXCEPT ![task] = "idle"]
           ELSE IF g.attempt < max_retries - 1
           THEN /\ http' = [http EXCEPT ![task] =
                               [g1 EXCEPT !.slept_at = now, !.sleeps = @ + 1]]
                /\ pc' = [pc EXCEPT ![task] = "retry_sleep"]
           ELSE /\ http' = [http EXCEPT ![task] =
                               [g1 EXCEPT !.active = FALSE,
                                          !.result = [kind |-> "HttpError",
                                                      status |-> ""]]]
                /\ pc' = [pc EXCEPT ![task] = "idle"]
        /\ UNCHANGED <<now, last_request, request_counts, daily_counts, lock, ret>>

HttpOutcome(task, outcome) ==
    /\ HttpRespond(task, outcome)
    /\ UNCHANGED exceptHttp

\* The sleep between two attempts is over: the next pass of the loop.
HttpRetry(task) ==
    LET g == http[task]
    IN  /\ g.active
        /\ pc[task] = "retry_sleep"
        /\ RetrySleepOver(g.slept_at, g.attempt)
        /\ CallsStarted < MaxCalls
        /\ BeginAttempt(task, [g EXCEPT !.attempt = @ + 1])
        /\ UNCHANGED exceptHttp

\* Time passes while a get call runs.
TickHttp ==
    /\ now < StartTime + MaxHttpTime
    /\ now' = now + 1
    /\ UNCHANGED <<last_request, request_counts, daily_counts, failure_counts, recorded,
                   lock, pc, call, ret>>
    /\ UNCHANGED exceptRate

InitHttp == http = [t \in Tasks |-> NoGet]

(***************************************************************************)
(* RobotsChecker (utils/robots.py). Time is counted in hours. A robots.txt *)
(* is one of two files: one that disallows nothing and one that disallows  *)
(* /private for every agent.                                               *)
(***************************************************************************)
\* datetime.now() when the process starts, later than any cached file's mtime.
RobotsStart == 10

\* The domains whose pages are asked about.
RobotsDomains == {"a.example"}

RobotsPaths == {"/", "/private"}

\* RobotFileParser states: allow_all set, or parsed from one of the two files.
RobotsFiles == {"allow", "disallow_private"}

\* entry.parser.can_fetch(agent, url)
ParserCanFetch(parser, path) ==
    \/ parser = "allow_all"
    \/ parser = "allow"
    \/ path # "/private"

\* `origin` is history: where the parser of an entry came from.
NoEntry == [present |-> FALSE, fetched_at |-> 0, parser |-> "", origin |-> ""]

NoFile == [exists |-> FALSE, mtime |-> 0, content |-> ""]

NoRobotsCall == [domain |-> "", path |-> "", waited |-> FALSE]

NoRobotsRet ==
    [value |-> FALSE, via |-> "none", domain |-> "", waited |-> FALSE,
     path |-> "", parser |-> "", origin |-> "", age |-> 0]

\* The lock released while robots.txt is fetched.
RobotsLockWhileFetchingNone(task) == NoTask

\* Who holds self._lock while _fetch_robots runs: line 165 is inside the
\* `async with self._lock` block of _get_entry.
RobotsLockWhileFetching(task) == task

\* Line 152: the memory entry is still fresh.
MemoryFresh(entry) ==
    entry.present /\ rnow - entry.fetched_at < cache_ttl_hours

\* _load_from_disk returns an entry: the file exists and is not expired (line 68).
DiskFresh(file) ==
    file.exists /\ ~(rnow - file.mtime > cache_ttl_hours)

\* The entry _load_from_disk builds from a file that is not expired.
LoadFromDisk(file) ==
    [present |-> TRUE, fetched_at |-> file.mtime, parser |-> file.content,
     origin |-> "disk"]

\* A parser that disallows after a failed request for robots.txt.
FailedFetchParserClosed(outcome) == "disallow_private"

\* Lines 130-143: any status but 200 and any exception give a parser with
\* allow_all set.
FailedFetchParser(outcome) == "allow_all"

\* The entry _fetch_robots returns when the GET ended in `outcome`.
FetchedEntry(outcome) ==
    [present |-> TRUE, fetched_at |-> rnow,
     parser |-> IF outcome \in RobotsFiles THEN outcome
                ELSE FailedFetchParser(outcome),
     origin |-> IF outcome \in RobotsFiles THEN "network_200"
                ELSE "network_failed"]

\* can_fetch returns to task, whose call is c: entry.parser.can_fetch(agent, url).
RobotsReturn(task, c, entry, via) ==
    /\ rret' = [rret EXCEPT ![task] =
                   [value |-> ParserCanFetch(entry.parser, c.path), via |-> via,
                    domain |-> c.domain, waited |-> c.waited, path |-> c.path,
                    parser |-> entry.parser, origin |-> entry.origin,
                    age |-> rnow - entry.fetched_at]]
    /\ rpc' = [rpc EXCEPT ![task] = "idle"]
    /\ rcall' = [rcall EXCEPT ![task] = NoRobotsCall]

\* Lines 149-173, from the moment the task holds the lock: memory cache, disk
\* cache, then the network; the first two return without suspending.
GetEntryLocked(task, c) ==
    LET d == c.domain
        entry == robots_cache[d]
        file == robots_disk[d]
    IN  IF MemoryFresh(entry)
        THEN /\ RobotsReturn(task, c, entry, "memory")
             /\ UNCHANGED <<robots_cache, robots_disk, robots_lock, robots_log>>
        ELSE IF DiskFresh(file)
        THEN /\ robots_cache' = [robots_cache EXCEPT ![d] = LoadFromDisk(file)]
             /\ RobotsReturn(task, c, LoadFromDisk(file), "disk")
             /\ UNCHANGED <<robots_disk, robots_lock, robots_log>>
        ELSE /\ rpc' = [rpc EXCEPT ![task] = "fetching"]
             /\ rcall' = [rcall EXCEPT ![task] = c]
             /\ rret' = [rret EXCEPT ![task] = NoRobotsRet]
             /\ robots_lock' = RobotsLockWhileFetching(task)
             /\ robots_log' = [robots_log EXCEPT ![d].in_flight = @ + 1]
             /\ UNCHANGED <<robots_cache, robots_disk>>

\* can_fetch(url) as called by `task`, up to its first suspension; url is
\* `path` on `domain`.
CanFetchCall(task, domain, path) ==
    /\ IF ~respect_robots_txt
       THEN /\ rret' = [rret EXCEPT ![task] =
                           [NoRobotsRet EXCEPT !.value = TRUE, !.via = "setting",
                                               !.domain = domain, !.path = path]]
            /\ UNCHANGED <<robots_cache, robots_disk, robots_lock, robots_log,
                           rpc, rcall>>
       ELSE IF robots_lock = NoTask /\ \A t \in Tasks : rpc[t] # "lock_wait"
       THEN GetEntryLocked(task, [domain |-> domain, path |-> path,
                                  waited |-> FALSE])
       ELSE /\ rpc' = [rpc EXCEPT ![task] = "lock_wait"]
            /\ rcall' = [rcall EXCEPT ![task] =
                            [domain |-> domain, path |-> path, waited |-> TRUE]]
            /\ rret' = [rret EXCEPT ![task] = NoRobotsRet]
            /\ UNCHANGED <<robots_cache, robots_disk, robots_lock, robots_log>>
    /\ UNCHANGED <<respect_robots_txt, rnow>>

\* A task calls can_fetch(url).
CanFetch(task, domain, path) ==
    /\ rpc[task] = "idle"
    /\ CanFetchCall(task, domain, path)
    /\ UNCHANGED exceptRobots

\* A queued task gets the lock of _get_entry.
RobotsEnter(task) ==
    /\ rpc[task] = "lock_wait"
    /\ robots_lock = NoTask
    /\ GetEntryLocked(task, rcall[task])
    /\ UNCHANGED <<respect_robots_txt, rnow>>
    /\ UNCHANGED exceptRobots

\* What the GET of robots.txt can end in: status 200 with one of the two files,
\* another status, or an exception.
RobotsOutcomes == RobotsFiles \cup {"404", "error"}

\* Lines 96-143 and 165-168: the GET of robots.txt has ended in `outcome`; a 200
\* is saved to disk and parsed, anything else gives an allow-all entry; the entry
\* goes to the memory cache and _get_entry returns, releasing the lock.
FetchRobotsReturn(task, outcome) ==
    LET c == rcall[task]
        d == c.domain
    IN  /\ robots_disk' =
               IF outcome \in RobotsFiles
               THEN [robots_disk EXCEPT ![d] =
                        [exists |-> TRUE, mtime |-> rnow, content |-> outcome]]
               ELSE robots_disk
        /\ robots_cache' = [robots_cache EXCEPT ![d] = FetchedEntry(outcome)]
        /\ robots_lock' = IF robots_lock = task THEN NoTask ELSE robots_lock
        /\ robots_log' = [robots_log EXCEPT ![d] =
                             [in_flight |-> @.in_flight - 1, done |-> TRUE,
                              last_done |-> rnow, cleared |-> FALSE,
                              rebuilt |-> FALSE,
                              last_ok |-> outcome \in RobotsFiles]]
        /\ RobotsReturn(task, c, FetchedEntry(outcome), "network")
        /\ UNCHANGED <<respect_robots_txt, rnow>>

FetchRobotsDone(task, outcome) ==
    /\ rpc[task] = "fetching"
    /\ FetchRobotsReturn(task, outcome)
    /\ UNCHANGED exceptRobots

\* RobotsChecker.clear_cache()
ClearCache ==
    /\ robots_cache' = [d \in RobotsDomains |-> NoEntry]
    /\ robots_log' = [d \in RobotsDomains |-> [robots_log[d] EXCEPT !.cleared = TRUE]]
    /\ UNCHANGED <<respect_robots_txt, rnow, robots_disk, robots_lock, rpc, rcall, rret>>
    /\ UNCHANGED exceptRobots

\* The process ends and a later one constructs a RobotsChecker over the same
\* cache directory: __init__ starts with an empty _cache and a free lock.
NewChecker ==
    /\ \A t \in Tasks : rpc[t] = "idle"
    /\ robots_lock = NoTask
    /\ robots_cache' = [d \in RobotsDomains |-> NoEntry]
    /\ robots_log' = [d \in RobotsDomains |->
                         [robots_log[d] EXCEPT !.cleared = TRUE, !.rebuilt = TRUE]]
    /\ UNCHANGED <<respect_robots_txt, rnow, robots_disk, robots_lock, rpc, rcall, rret>>
    /\ UNCHANGED exceptRobots

\* Time passes.
RobotsTick ==
    /\ rnow < RobotsStart + MaxRobotsTime
    /\ rnow' = rnow + 1
    /\ UNCHANGED <<respect_robots_txt, robots_cache, robots_disk, robots_lock,
                   rpc, rcall, rret, robots_log>>
    /\ UNCHANGED exceptRobots

\* RobotsChecker.__init__ apart from what the environment decides.
InitRobotsObject ==
    /\ rnow = RobotsStart
    /\ robots_cache = [d \in RobotsDomains |-> NoEntry]
    /\ robots_lock = NoTask
    /\ rpc = [t \in Tasks |-> "idle"]
    /\ rcall = [t \in Tasks |-> NoRobotsCall]
    /\ rret = [t \in Tasks |-> NoRobotsRet]
    /\ robots_log = [d \in RobotsDomains |->
                        [in_flight |-> 0, done |-> FALSE, last_done |-> 0,
                         cleared |-> FALSE, rebuilt |-> FALSE, last_ok |-> FALSE]]

\* The files an earlier run may have left in the cache directory: none, one
\* written an hour ago, one older than the TTL.
DiskFiles ==
    {NoFile}
        \cup {[exists |-> TRUE, mtime |-> m, content |-> f] :
                  m \in {RobotsStart - 1, RobotsStart - cache_ttl_hours - 1},
                  f \in RobotsFiles}

\* Any setting and any cache directory.
InitRobots ==
    /\ InitRobotsObject
    /\ respect_robots_txt \in BOOLEAN
    /\ robots_disk \in [RobotsDomains -> DiskFiles]

\* The default setting (settings.py:49) and an empty cache directory.
InitRobotsDefault ==
    /\ InitRobotsObject
    /\ respect_robots_txt = TRUE
    /\ robots_disk = [d \in RobotsDomains |-> NoFile]

(***************************************************************************)
(* WebsiteSource.fetch (sources/website.py): one task, one RobotsChecker   *)
(* and one RateLimiter for the source.                                     *)
(***************************************************************************)
\* A task outside fetch; `result` is what its last fetch call returned.
NoFetch == [active |-> FALSE, domain |-> "", path |-> "", stage |-> "idle",
            result |-> "none"]

\* fetch goes on to the page whatever validate_access said.
AccessAllowedAlways(can_fetch) == TRUE

\* Line 71: `if not await self.validate_access(url)` returns the error result.
AccessAllowed(can_fetch) == can_fetch

\* Lines 82-113: the SourceResult for a response; `parsed` says whether
\* _parse_website found a provider.
ResultOfResponse(status, parsed) ==
    IF ~Ok(status) THEN "http_status"
    ELSE IF parsed THEN "provider"
    ELSE "no_data"

\* Lines 71-80: validate_access has returned can_fetch; either the access-denied
\* result, or client.get(url, source_type="website") up to its first suspension.
\* Whatever get raises is turned into an error result (lines 115-120).
AfterValidateAccess(task, w, can_fetch) ==
    IF ~AccessAllowed(can_fetch)
    THEN /\ web' = [web EXCEPT ![task] =
                       [w EXCEPT !.active = FALSE, !.stage = "idle",
                                 !.result = "denied"]]
         /\ UNCHANGED <<varsRate, varsHttp>>
    ELSE /\ CallsStarted < MaxCalls
         /\ BeginAttempt(task, [NoGet EXCEPT !.active = TRUE,
                                             !.source_type = "website",
                                             !.domain = w.domain])
         /\ web' = [web EXCEPT ![task] =
                       IF http'[task].active
                       THEN [w EXCEPT !.stage = "http"]
                       ELSE [w EXCEPT !.active = FALSE, !.stage = "idle",
                                      !.result = "error"]]

\* A task calls fetch(url), url being `path` on `domain`.
WebFetch(task, domain, path) ==
    LET w == [NoFetch EXCEPT !.active = TRUE, !.domain = domain, !.path = path,
                             !.stage = "robots"]
    IN  /\ ~web[task].active
        /\ rpc[task] = "idle" /\ pc[task] = "idle" /\ ~http[task].active
        /\ CanFetchCall(task, domain, path)
        /\ IF rpc'[task] = "idle"
           THEN AfterValidateAccess(task, w, rret'[task].value)
           ELSE /\ web' = [web EXCEPT ![task] = w]
                /\ UNCHANGED <<varsRate, varsHttp>>
        /\ UNCHANGED <<varsDedup, varsSearch, varsRun>>

\* The GET of robots.txt made for a fetch call has ended.
WebRobotsDone(task, outcome) ==
    /\ web[task].active /\ web[task].stage = "robots"
    /\ rpc[task] = "fetching"
    /\ FetchRobotsReturn(task, outcome)
    /\ AfterValidateAccess(task, web[task], rret'[task].value)
    /\ UNCHANGED <<varsDedup, varsSearch, varsRun>>

\* The GET of the page has ended.
WebHttpOutcome(task, outcome, parsed) ==
    /\ web[task].active /\ web[task].stage = "http"
    /\ HttpRespond(task, outcome)
    /\ web' = [web EXCEPT ![task] =
                  IF http'[task].active THEN @
                  ELSE [@ EXCEPT !.active = FALSE, !.stage = "idle",
                                 !.result =
                                     IF http'[task].result.kind = "response"
                                     THEN ResultOfResponse(outcome, parsed)
                                     ELSE "error"]]
    /\ UNCHANGED <<varsDedup, varsRobots, varsSearch, varsRun>>

InitWeb == web = [t \in Tasks |-> NoFetch]

(***************************************************************************)
(* GooglePlacesSource.search (sources/google_places.py): one call of the   *)
(* generator, pulled to its end by its consumer. The RateLimiter is kept   *)
(* as the daily count of google_places only: a client.get is admitted      *)
(* while the count is below the daily limit and raises RateLimitExceeded   *)
(* otherwise.                                                              *)
(***************************************************************************)
PlaceIds == {"p1", "p2"}

\* The entries of data["results"] on one page: at most MaxPageLen places, each
\* with a place_id or without one.
Pages ==
    UNION {[1..n -> PlaceIds \cup {None}] : n \in 0..MaxPageLen}

\* SourceResult.provider when it is None.
NoProvider == [place_id |-> None, sources |-> <<>>]

\* Nothing yielded yet.
NoYield == [provider |-> NoProvider, error |-> None, source_type |-> ""]

\* SourceResult(error=...)
ErrorResult(error) ==
    [provider |-> NoProvider, error |-> error, source_type |-> "GOOGLE_MAPS"]

\* A provider that fetch returns without a ScrapedSource of its own.
ProviderResultUntagged(place_id) ==
    [provider |-> [place_id |-> place_id, sources |-> <<>>],
     error |-> None, source_type |-> "GOOGLE_MAPS"]

\* SourceResult(provider=provider, ...) of fetch: the parsed provider with the
\* ScrapedSource of lines 186-191 appended to its (empty) sources.
ProviderResult(place_id) ==
    [provider |-> [place_id |-> place_id, sources |-> <<"GOOGLE_MAPS">>],
     error |-> None, source_type |-> "GOOGLE_MAPS"]

\* WebsiteSource.fetch: SourceResult(error=...)
WebErrorResult(error) ==
    [provider |-> NoProvider, error |-> error, source_type |-> "WEBSITE"]

\* WebsiteSource.fetch: SourceResult(provider=provider, ...), the provider with
\* the ScrapedSource of website.py:94-99 appended to its sources.
WebProviderResult(url) ==
    [provider |-> [place_id |-> url, sources |-> <<"WEBSITE">>],
     error |-> None, source_type |-> "WEBSITE"]

\* SourceResult.success
Success(result) == result.provider # NoProvider /\ result.error = None

\* The text searches of phase 1 and the nearby searches of phase 2, in the order
\* search starts them.
SubSearches(is_nyc, use_coordinates) ==
    LET locations == IF is_nyc THEN NumNeighborhoods ELSE 1
        text == [i \in 1..(locations * NumQueries) |-> "text"]
        nearby == IF use_coordinates
                  THEN [i \in 1..(NumSearchPoints * Min2(3, NumQueries)) |-> "nearby"]
                  ELSE <<>>
    IN  text \o nearby

\* The argument of asyncio.sleep on lines 384 and 484, in seconds.
page_token_delay == 2

\* No search call made yet.
NoSearch ==
    [stage |-> "idle", source |-> "", urls |-> 0, is_nyc |-> FALSE, use_coordinates |-> FALSE,
     max_results |-> 0, k |-> 0, sub |-> "none", places |-> <<>>,
     next_page_token |-> FALSE, token_age |-> 0, results_count |-> 0,
     results_yielded |-> 0,
     sub_max |-> 0, seen_place_ids |-> {}, daily_count |-> 0,
     fetched |-> [p \in PlaceIds |-> 0], seen_skips |-> {}, yielded |-> 0,
     successes |-> 0, last |-> NoYield]

\* `yield result` to the consumer; `successes` is history: the successful results
\* the consumer has been handed.
Yield(s, result) ==
    [s EXCEPT !.yielded = @ + 1, !.last = result,
              !.successes = IF Success(result) THEN @ + 1 ELSE @]

\* A results_count that is never raised.
CountResultNever(results_count, result) == results_count

\* Lines 272-273 and 292-293: `if result.success: results_count += 1`.
CountResult(results_count, result) ==
    IF Success(result) THEN results_count + 1 ELSE results_count

\* _text_search or _nearby_search is over; back in the loops of search.
EndSub(s) == [s EXCEPT !.sub = "none", !.k = @ + 1, !.places = <<>>,
                       !.next_page_token = FALSE, !.token_age = 0]

\* Any seen place counts as new.
AlreadySeenNever(seen_place_ids, place_id) == FALSE

\* Line 357 and 456: place_id in seen_place_ids
AlreadySeen(seen_place_ids, place_id) == place_id \in seen_place_ids

\* search(city, category, **kwargs) is called and runs up to its first
\* suspension; `enabled` is is_enabled and `valid` whether category names a
\* ServiceCategory. The daily count of google_places stands at daily_count.
SearchCall(is_nyc, use_coordinates_kw, max_results, enabled, valid, daily_count) ==
    /\ search.stage = "idle"
    /\ search' =
           IF ~enabled \/ ~valid
           THEN Yield([NoSearch EXCEPT !.stage = "done",
                                       !.source = "google_places",
                                       !.daily_count = daily_count],
                      ErrorResult("not configured or invalid category"))
           ELSE [NoSearch EXCEPT !.stage = "running",
                                 !.source = "google_places", !.is_nyc = is_nyc,
                                 !.use_coordinates = use_coordinates_kw /\ is_nyc,
                                 !.max_results = max_results, !.k = 1,
                                 !.daily_count = daily_count]
    /\ UNCHANGED exceptSearch

\* The loops of lines 263-296 between two sub-searches: every loop breaks once
\* results_count >= max_results; otherwise the next _text_search or
\* _nearby_search starts with max_results - results_count.
SearchNext ==
    LET s == search
    IN  /\ s.stage = "running" /\ s.source = "google_places" /\ s.sub = "none"
        /\ search' =
               IF \/ s.results_count >= s.max_results
                  \/ s.k > Len(SubSearches(s.is_nyc, s.use_coordinates))
               THEN [s EXCEPT !.stage = "done"]
               ELSE [s EXCEPT !.sub = "page",
                              !.sub_max = s.max_results - s.results_count,
                              !.results_yielded = 0]
        /\ UNCHANGED exceptSearch

\* What client.get of a search page can end in: an exception (HttpError after the
\* retries, or a body that is not JSON), a status that is not ok, an API status
\* other than OK and ZERO_RESULTS, or a page.
PageOutcomes == {"exception", "http_error", "api_error", "page"}

\* Lines 320-349: one pass of the while loop up to the places of the page. An
\* admitted get makes `cost` acquire calls (one per attempt).
GetPage(outcome, cost, places, token) ==
    LET s == search
    IN  /\ s.stage = "running" /\ s.sub = "page"
        /\ search' =
               IF OverDailyLimit(ConfigOf("google_places"), s.daily_count)
               THEN EndSub(Yield(s, ErrorResult("RateLimitExceeded")))
               ELSE LET s1 == [s EXCEPT !.daily_count =
                                            Min2(@ + cost, DailyLimit)]
                    IN  IF outcome = "page"
                        THEN [s1 EXCEPT !.sub = "places", !.places = places,
                                        !.next_page_token = token, !.token_age = 0]
                        ELSE EndSub(Yield(s1, ErrorResult(outcome)))
        /\ UNCHANGED exceptSearch

\* What fetch(place_id) can end in; every exception is caught inside fetch.
FetchOutcomes == {"provider", "no_name", "http_error", "api_error", "exception"}

\* Lines 352-375: the next place of the page.
ProcessPlace(outcome, cost) ==
    LET s == search
        place_id == Head(s.places)
    IN  /\ s.stage = "running" /\ s.sub = "places" /\ s.places # <<>>
        /\ search' =
               IF s.results_yielded >= s.sub_max
               THEN EndSub(s)
               ELSE IF place_id = None
               THEN [s EXCEPT !.places = Tail(@)]
               ELSE IF AlreadySeen(s.seen_place_ids, place_id)
               THEN [s EXCEPT !.places = Tail(@),
                              !.seen_skips = @ \cup
                                  {SubSearches(s.is_nyc, s.use_coordinates)[s.k]}]
               ELSE LET admitted == ~OverDailyLimit(ConfigOf("google_places"),
                                                    s.daily_count)
                        result == IF admitted /\ outcome = "provider"
                                  THEN ProviderResult(place_id)
                                  ELSE ErrorResult(outcome)
                        s1 == [Yield(s, result) EXCEPT
                                   !.seen_place_ids = @ \cup {place_id},
                                   !.fetched[place_id] = @ + 1,
                                   !.daily_count =
                                       IF admitted THEN Min2(@ + cost, DailyLimit)
                                       ELSE @,
                                   !.results_yielded = @ + 1,
                                   !.results_count = CountResult(@, result),
                                   !.places = Tail(@)]
                    IN  IF s1.results_count >= s1.max_results
                        THEN EndSub(s1)
                        ELSE s1
        /\ UNCHANGED exceptSearch

\* Lines 377-384: the page is done; without a next_page_token the sub-search
\* ends, with one it starts asyncio.sleep(2).
PageEnd ==
    LET s == search
    IN  /\ s.stage = "running" /\ s.sub = "places" /\ s.places = <<>>
        /\ search' =
               IF s.next_page_token
               THEN [s EXCEPT !.sub = "token_sleep", !.token_age = 0]
               ELSE EndSub(s)
        /\ UNCHANGED exceptSearch

\* A second passes while the sub-search sleeps on line 384.
TokenSleepTick ==
    LET s == search
    IN  /\ s.stage = "running" /\ s.sub = "token_sleep"
        /\ s.token_age < page_token_delay
        /\ search' = [s EXCEPT !.token_age = @ + 1]
        /\ UNCHANGED exceptSearch

\* A sleep that returns at once.
PageTokenSleepNone(token_age) == TRUE

\* asyncio.sleep(2) on line 384 is over.
PageTokenSleepOver(token_age) == token_age >= page_token_delay

\* The sleep returns: the while condition of line 321 is tested again.
TokenSleepEnd ==
    LET s == search
    IN  /\ s.stage = "running" /\ s.sub = "token_sleep"
        /\ PageTokenSleepOver(s.token_age)
        /\ search' =
               IF s.results_yielded < s.sub_max
               THEN [s EXCEPT !.sub = "page"]
               ELSE EndSub(s)
        /\ UNCHANGED exceptSearch

\* What WebsiteSource.fetch(url) can end in: access denied by robots.txt, a
\* status that is not ok, a parsed provider, a page without provider data, an
\* exception (caught inside fetch).
WebFetchOutcomes == {"denied", "http_error", "provider", "no_data", "exception"}

\* WebsiteSource.search(city, category, urls=...) is called with n urls; the for
\* loop over an empty list ends the generator at once.
WebsiteSearchCall(n) ==
    /\ search.stage = "idle"
    /\ search' = [NoSearch EXCEPT !.stage = IF n = 0 THEN "done" ELSE "running",
                                  !.source = "website", !.urls = n]
    /\ UNCHANGED exceptSearch

\* website.py:136-138: fetch of the next url has returned and its result is
\* yielded; after the last url the generator ends.
WebsiteSearchFetch(outcome) ==
    LET s == search
        result == IF outcome = "provider" THEN WebProviderResult(s.urls)
                  ELSE WebErrorResult(outcome)
    IN  /\ s.stage = "running" /\ s.source = "website" /\ s.urls > 0
        /\ search' = [Yield(s, result) EXCEPT
                          !.urls = @ - 1,
                          !.stage = IF s.urls = 1 THEN "done" ELSE "running"]
        /\ UNCHANGED exceptSearch

InitSearch == search = NoSearch

NextSearch ==
    \/ \E is_nyc, kw, enabled, valid \in BOOLEAN, n \in 1..MaxResults,
          d \in 0..DailyLimit :
           SearchCall(is_nyc, kw, n, enabled, valid, d)
    \/ SearchNext
    \/ \E c \in 1..max_retries, ps \in Pages, tok \in BOOLEAN :
           GetPage("page", c, ps, tok)
    \/ \E o \in PageOutcomes \ {"page"}, c \in 1..max_retries :
           GetPage(o, c, <<>>, FALSE)
    \/ \E o \in FetchOutcomes, c \in 1..max_retries : ProcessPlace(o, c)
    \/ PageEnd
    \/ TokenSleepTick
    \/ TokenSleepEnd
    \/ \E n \in 0..MaxUrls : WebsiteSearchCall(n)
    \/ \E o \in WebFetchOutcomes : WebsiteSearchFetch(o)

(***************************************************************************)
(* cmd_search (__main__.py): the loop over the results of source.search,   *)
(* and the save at its end.                                                *)
(***************************************************************************)
\* Nothing written by store.save_providers.
NoSave == [written |-> FALSE, providers |-> <<>>]

NoRun ==
    [stage |-> "idle", providers |-> <<>>, saved |-> NoSave, stats_saved |-> FALSE,
     pages_attempted |-> 0, pages_fetched |-> 0, providers_new |-> 0,
     duplicates_skipped |-> 0, pages_errored |-> 0]

\* The results source.search can yield to the run.
RunResults ==
    {[provider |-> p, error |-> None, source_type |-> "GOOGLE_MAPS"] : p \in RunUniverse}
        \cup {ErrorResult("HttpError")}

\* cmd_search is called; without an API key it returns at once.
RunStart(google_places_enabled) ==
    /\ run.stage = "idle"
    /\ run' = [NoRun EXCEPT !.stage = IF google_places_enabled THEN "running" ELSE "done"]
    /\ UNCHANGED <<varsDedup, exceptRun>>

\* `providers` after the add of the loop body: the record add returned is
\* appended when add called it new.
ProvidersAfterAdd(providers, is_new, merged) ==
    IF is_new THEN Append(providers, merged) ELSE providers

\* One pass of `async for result in source.search(...)`.
RunResult(result) ==
    /\ run.stage = "running"
    /\ run.pages_attempted < MaxPages
    \* search fetches a place id once (seen_place_ids)
    /\ Success(result) => normalize(result.provider) \notin Range(addLog)
    /\ UNCHANGED exceptRun
    /\ IF Success(result)
       THEN /\ AddCall(normalize(result.provider))
            /\ run' = IF lastAdd'.raised
                      THEN \* the TypeError of merge leaves cmd_search
                           [run EXCEPT !.stage = "crashed",
                                       !.pages_attempted = @ + 1,
                                       !.pages_fetched = @ + 1]
                      ELSE [run EXCEPT
                               !.pages_attempted = @ + 1,
                               !.pages_fetched = @ + 1,
                               !.providers = ProvidersAfterAdd(@, lastAdd'.is_new,
                                                               lastAdd'.result),
                               !.providers_new =
                                   IF lastAdd'.is_new THEN @ + 1 ELSE @,
                               !.duplicates_skipped =
                                   IF lastAdd'.is_new THEN @ ELSE @ + 1]
       ELSE /\ run' = [run EXCEPT !.pages_attempted = @ + 1,
                                  !.pages_errored = @ + 1]
            /\ UNCHANGED varsDedup

\* The generator is exhausted: lines 165-171.
RunSave ==
    /\ run.stage = "running"
    /\ run' = [run EXCEPT
                  !.stage = "done",
                  !.saved = IF run.providers # <<>>
                            THEN [written |-> TRUE, providers |-> run.providers]
                            ELSE @,
                  !.stats_saved = TRUE]
    /\ UNCHANGED <<varsDedup, exceptRun>>

InitRun == run = NoRun

NextRun ==
    \/ \E enabled \in BOOLEAN : RunStart(enabled)
    \/ \E result \in RunResults : RunResult(result)
    \/ RunSave

Init ==
    /\ InitDedup /\ InitRate /\ InitHttp /\ InitRobotsDefault /\ InitWeb /\ InitSearch
    /\ InitRun

NextRate ==
    \/ \E t \in Tasks, s \in SourceTypes, d \in Domains : CallAcquire(t, s, d)
    \/ \E t \in Tasks : AcquireEnter(t)
    \/ \E t \in Tasks : AcquireWake(t)
    \/ \E t \in Tasks : RecordSuccess(t)
    \/ \E t \in Tasks : RecordFailure(t)
    \/ ResetDailyCounts
    \/ Tick

SpecSearch == Init /\ [][NextSearch]_vars

\* The consumer keeps pulling and every request is answered.
SpecSearchLive == SpecSearch /\ WF_vars(NextSearch)

SpecDedup == Init /\ [][NextDedup]_vars

NextKey == \E provider \in KeyUniverse : Add(provider)

SpecKey == Init /\ [][NextKey]_vars

NextPhone == \E provider \in PhoneUniverse : Add(provider)

SpecPhone == Init /\ [][NextPhone]_vars

SpecRun == Init /\ [][NextRun]_vars

NextFind ==
    \/ \E provider \in FindUniverse : Add(provider)
    \/ \E provider \in FindQueries : FindDuplicates(provider)

SpecFind == Init /\ [][NextFind]_vars

SpecRate == Init /\ [][NextRate]_vars

NextHttp ==
    \/ \E t \in HttpTasks, s \in SourceTypes, d \in Domains : HttpGet(t, s, d)
    \/ \E t \in HttpTasks : AcquireWake(t)
    \/ \E t \in HttpTasks, o \in Outcomes : HttpOutcome(t, o)
    \/ \E t \in HttpTasks : HttpRetry(t)
    \/ TickHttp

SpecHttp == Init /\ [][NextHttp]_vars

NextRobots ==
    \/ \E t \in Tasks, d \in RobotsDomains, path \in RobotsPaths : CanFetch(t, d, path)
    \/ \E t \in Tasks : RobotsEnter(t)
    \/ \E t \in Tasks, o \in RobotsOutcomes : FetchRobotsDone(t, o)
    \/ ClearCache
    \/ NewChecker
    \/ RobotsTick

NextWeb ==
    \/ \E t \in HttpTasks, d \in RobotsDomains, path \in RobotsPaths :
           WebFetch(t, d, path)
    \/ \E t \in HttpTasks, o \in RobotsOutcomes : WebRobotsDone(t, o)
    \/ \E t \in HttpTasks : AcquireWake(t)
    \/ \E t \in HttpTasks, o \in Outcomes, parsed \in BOOLEAN :
           WebHttpOutcome(t, o, parsed)
    \/ \E t \in HttpTasks : HttpRetry(t)
    \/ TickHttp

SpecWeb == Init /\ [][NextWeb]_vars

InitAnyRobots ==
    /\ InitDedup /\ InitRate /\ InitHttp /\ InitRobots /\ InitWeb /\ InitSearch
    /\ InitRun

SpecRobots == InitAnyRobots /\ [][NextRobots]_vars

(***************************************************************************)
(* Properties of the Deduplicator and of merge.                            *)
(***************************************************************************)
Last(s) == s[Len(s)]

\* The source ranking the specification states: map API > website > directory > search.
SourceRank(t) ==
    CASE t = "GOOGLE_MAPS" -> 3
      [] t = "WEBSITE"     -> 2
      [] t = "DIRECTORY"   -> 1
      [] OTHER             -> 0

\* The maximum source priority among a record's provenance entries.
MaxPriority(p) ==
    IF p.sources = <<>> THEN 0
    ELSE CHOOSE n \in {SourceRank(p.sources[i].type) : i \in DOMAIN p.sources} :
             \A i \in DOMAIN p.sources : SourceRank(p.sources[i].type) <= n

\* The most recent add call returned a merge of `existing` with the incoming record.
Merged == lastAdd.how \in {"exact", "phone", "url"} /\ ~lastAdd.raised

\* C1: from an empty Deduplicator, adding the three providers of scenario A in order
\* leaves exactly one canonical record, and it carries phone +13051234567.
C1_ScenarioA ==
    addLog = <<ScnA1, ScnA2, ScnA3>> =>
        /\ count = 1
        /\ \A k \in DOMAIN index : index[k].phone = "+13051234567"

\* C2: when incoming's maximum source priority is strictly higher than existing's,
\* every scalar field of the merged record is incoming's value when that is
\* non-empty and existing's value otherwise.
C2_HigherPriorityIncomingIsBase ==
    Merged =>
        LET e == lastAdd.existing
            n == Last(addLog)
            m == lastAdd.result
        IN  MaxPriority(n) > MaxPriority(e) =>
                /\ m.name = OrSeq(n.name, e.name)
                /\ m.address = OrSeq(n.address, e.address)
                /\ m.city = OrSeq(n.city, e.city)
                /\ m.phone = OrStr(n.phone, e.phone)
                /\ m.website_url = OrStr(n.website_url, e.website_url)
                /\ m.email = OrStr(n.email, e.email)

(***************************************************************************)
(* Properties of HttpClient.get.                                           *)
(***************************************************************************)
\* Task t's get call has made at least one request and the server has answered
\* every request of the call with HTTP 500.
AlwaysAnswered500(t) == http[t].attempts_made >= 1 /\ http[t].all_500

\* The get call of task t has ended.
GetEnded(t) == ~http[t].active /\ http[t].result.kind # "none"

DailyLimitOf(s) == ConfigOf(s).daily_limit

\* The acquire call of task t has returned in this step.
AcquireReturned(t) == pc[t] # "request" /\ pc'[t] = "request"

\* The failure count the returning acquire call of task t worked with.
FailureCountRead(t) ==
    IF pc[t] = "sleeping" THEN call[t].failure_count
    ELSE failure_counts[call'[t].domain]

\* C4: acquire(source_type, domain) never returns earlier than min_interval after
\* the previous acquire for that domain returned, min_interval being the interval
\* the source type's configuration and the domain's failure count (as the call
\* read it under the lock) require, under every interleaving of pending acquire
\* calls.
C4_MinIntervalRespected ==
    [][ \A t \in Tasks :
            AcquireReturned(t) =>
                now - last_request[call'[t].domain]
                    >= MinInterval(ConfigOf(call'[t].source_type),
                                   FailureCountRead(t)) ]_vars

\* C4 witness: a second acquire for a domain has just returned after its sleep,
\* while another call for the same domain is queued behind it.
C4_Witness ==
    \E d \in Domains, t1, t2 \in Tasks :
        /\ request_counts[d] >= 2
        /\ last_request[d] = now
        /\ now > StartTime
        /\ pc[t1] = "request" /\ call[t1].domain = d
        /\ pc[t2] = "lock_wait" /\ call[t2].domain = d

\* Task t's acquire call has made its daily-limit check in this step.
CheckMade(t) ==
    /\ pc[t] \in {"idle", "lock_wait"}
    /\ pc'[t] # "lock_wait"
    /\ <<pc[t], ret[t]>> # <<pc'[t], ret'[t]>> \/ pc[t] = "lock_wait"

\* C5: acquire fails with RateLimitExceeded whenever the source type's daily count
\* has reached its daily limit; the check comes before any sleep, and a call that
\* fails this way changes no timestamp and no counter.
C5_DailyLimitRaises ==
    [][ \A t \in Tasks :
            /\ CheckMade(t) /\ pc'[t] \in {"sleeping", "request"} =>
                   \/ DailyLimitOf(call'[t].source_type) = 0
                   \/ daily_counts[call'[t].source_type]
                          < DailyLimitOf(call'[t].source_type)
            /\ CheckMade(t) /\ pc[t] = "lock_wait"
                   /\ DailyLimitOf(call[t].source_type) # 0
                   /\ daily_counts[call[t].source_type]
                          >= DailyLimitOf(call[t].source_type) =>
                   ret'[t] = "RateLimitExceeded"
            /\ ret'[t] = "RateLimitExceeded" /\ (ret[t] # ret'[t] \/ pc[t] # pc'[t]) =>
                   /\ pc[t] # "sleeping"
                   /\ pc'[t] = "idle"
                   /\ UNCHANGED <<last_request, request_counts, daily_counts,
                                  failure_counts>> ]_vars

\* C5 witness: a call has failed with RateLimitExceeded at the daily limit.
C5_Witness ==
    \E t \in Tasks :
        /\ ret[t] = "RateLimitExceeded"
        /\ pc[t] = "idle"
        /\ daily_counts["google_places"] = DailyLimit

\* C6: for every source type with a daily limit, the daily count never exceeds
\* the limit, under any interleaving of concurrent acquire calls.
C6_DailyCountBounded ==
    \A s \in SourceTypes :
        DailyLimitOf(s) # 0 => daily_counts[s] <= DailyLimitOf(s)

\* C6 witness: the daily count has reached the limit while another call of the
\* same source type is queued inside acquire.
C6_Witness ==
    /\ daily_counts["google_places"] = DailyLimit
    /\ \E t \in Tasks : pc[t] = "lock_wait" /\ call[t].source_type = "google_places"

(***************************************************************************)
(* Properties of RobotsChecker.                                            *)
(***************************************************************************)
\* Task t starts a network fetch of robots.txt in this step.
FetchStarts(t) == rpc[t] # "fetching" /\ rpc'[t] = "fetching"

\* A network fetch of d's robots.txt is under way, or one ended less than the
\* TTL ago with no clear_cache call since.
FetchedWithinTtl(d) ==
    \/ robots_log[d].in_flight > 0
    \/ /\ robots_log[d].done
       /\ ~robots_log[d].cleared
       /\ rnow - robots_log[d].last_done < cache_ttl_hours

\* C7: can_fetch calls on one RobotsChecker for URLs of the same domain within
\* the TTL window, sequential or overlapping, perform at most one network fetch
\* of the domain's robots.txt: no fetch starts while one is under way or less
\* than the TTL after one ended.
C7_OneFetchPerTtlWindow ==
    [][ \A t \in Tasks :
            FetchStarts(t) => ~FetchedWithinTtl(rcall'[t].domain) ]_vars

\* C7 witness: one call fetched robots.txt over the network and an overlapping
\* call for the same domain, queued behind it, was answered from memory within
\* the TTL window.
C7_Witness ==
    \E t1, t2 \in Tasks, d \in RobotsDomains :
        /\ rret[t1].via = "network" /\ rret[t1].domain = d
        /\ rret[t2].via = "memory" /\ rret[t2].domain = d /\ rret[t2].waited
        /\ rret[t1].value # rret[t2].value
        /\ robots_log[d].done /\ ~robots_log[d].cleared
        /\ rnow - robots_log[d].last_done < cache_ttl_hours

(***************************************************************************)
(* Properties of WebsiteSource.fetch.                                      *)
(***************************************************************************)
\* validate_access has returned to task t's fetch call in this step.
FetchDecided(t) ==
    /\ web[t].stage # "http"
    /\ web'[t] # web[t]
    /\ web'[t].stage # "robots"

\* An HttpClient.get call of task t starts in this step.
GetIssued(t) == ~http[t].active /\ http'[t].active

\* Nothing of the RateLimiter or the HttpClient changes in this step.
LimiterAndClientUntouched ==
    UNCHANGED <<last_request, request_counts, daily_counts, failure_counts, lock,
                pc, call, ret, http>>

\* C8: WebsiteSource consults the robots policy before every website fetch; when
\* can_fetch(url) is false, fetch(url) returns the access-denied error result
\* without raising, and for that URL no HttpClient.get is issued, no
\* RateLimiter.acquire is consumed and no retry is made.
C8_DeniedFetchIssuesNothing ==
    [][ \A t \in HttpTasks :
            /\ FetchDecided(t) /\ ~rret'[t].value =>
                   /\ ~web'[t].active
                   /\ web'[t].result = "denied"
                   /\ LimiterAndClientUntouched
            /\ web[t].stage = "robots" /\ web'[t].stage = "robots" =>
                   LimiterAndClientUntouched
            /\ GetIssued(t) =>
                   /\ FetchDecided(t)
                   /\ rret'[t].value
                   /\ rret'[t].domain = web'[t].domain
            /\ ~LimiterAndClientUntouched =>
                   \/ web[t].stage = "http"
                   \/ FetchDecided(t) /\ rret'[t].value ]_vars

\* C8 witness: after a fetch of an allowed page went through the client, a fetch
\* of a page robots.txt disallows has returned the access-denied result, with
\* the domain's request count where the first fetch left it.
C8_Witness ==
    \E t \in HttpTasks :
        /\ ~web[t].active
        /\ web[t].result = "denied"
        /\ web[t].path = "/private"
        /\ ~rret[t].value
        /\ rret[t].via = "memory"
        /\ request_counts[web[t].domain] = 1
        /\ ~http[t].active /\ pc[t] = "idle"

(***************************************************************************)
(* Properties of Deduplicator.add.                                         *)
(***************************************************************************)
\* An add call has just been made with provider p.
AddCalled(p) == Len(addLog') = Len(addLog) + 1 /\ p = Last(addLog')

KeyHit(p) == KeyOf(p) \in DOMAIN index
PhoneHit(p) == Truthy(p.phone) /\ p.phone \in DOMAIN phone_index
UrlHit(p) == Truthy(p.website_url) /\ p.website_url \in DOMAIN url_index

\* The store key of the first match in the order identity key, phone, URL.
FirstMatchKey(p) ==
    IF KeyHit(p) THEN KeyOf(p)
    ELSE IF PhoneHit(p) THEN phone_index[p.phone]
    ELSE url_index[p.website_url]

\* C9: add resolves the incoming record in the order identity key, phone, URL and
\* touches the first match only: every other entry of the store, and both
\* secondary indexes, are left as they were, and when add returns the first
\* match's entry is the merge of that entry with the incoming record.
C9_FirstMatchOnly ==
    [][\A p \in Universe :
          (AddCalled(p) /\ (KeyHit(p) \/ PhoneHit(p) \/ UrlHit(p))) =>
              LET a == FirstMatchKey(p) IN
              /\ DOMAIN index' = DOMAIN index
              /\ \A k \in DOMAIN index \ {a} : index'[k] = index[k]
              /\ phone_index' = phone_index /\ url_index' = url_index
              /\ ~lastAdd'.raised =>
                     /\ index'[a] = merge(index[a], p)
                     /\ lastAdd'.result = index'[a]
                     /\ lastAdd'.is_new = FALSE
      ]_vars

\* C9 witness: an add merged the incoming record into the phone match while the
\* record's URL was indexed under a different canonical record.
C9_Witness ==
    /\ Merged /\ lastAdd.how = "phone"
    /\ UrlHit(Last(addLog))
    /\ url_index[Last(addLog).website_url] # lastAdd.key
    /\ index[lastAdd.key] = lastAdd.result

C11_IsNewTracksCount ==
    [][ Len(addLog') = Len(addLog) + 1 =>
            LET p == Last(addLog') IN
            IF KeyHit(p) \/ PhoneHit(p) \/ UrlHit(p)
            THEN /\ ~lastAdd'.raised
                 /\ lastAdd'.is_new = FALSE
                 /\ count' = count
            ELSE /\ ~lastAdd'.raised
                 /\ lastAdd'.is_new = TRUE
                 /\ count' = count + 1 ]_vars

\* C12: when existing and incoming have equal maximum source priority, existing
\* is the base of the merged record: each scalar field is existing's value when
\* that is non-empty and incoming's otherwise, and the services list is
\* existing's when non-empty, else incoming's.
C12_EqualPriorityExistingIsBase ==
    Merged =>
        LET e == lastAdd.existing
            n == Last(addLog)
            m == lastAdd.result
        IN  MaxPriority(n) = MaxPriority(e) =>
                /\ m.name = OrSeq(e.name, n.name)
                /\ m.address = OrSeq(e.address, n.address)
                /\ m.city = OrSeq(e.city, n.city)
                /\ m.phone = OrStr(e.phone, n.phone)
                /\ m.website_url = OrStr(e.website_url, n.website_url)
                /\ m.email = OrStr(e.email, n.email)
                /\ m.services = OrSeq(e.services, n.services)

\* C12 witness: two website sightings were merged; both carried a phone and a
\* services list, different ones, and only the incoming one an email address.
C12_Witness ==
    /\ Merged
    /\ LET e == lastAdd.existing
           n == Last(addLog)
       IN  /\ e.sources # <<>> /\ MaxPriority(n) = MaxPriority(e)
           /\ Truthy(e.phone) /\ Truthy(n.phone) /\ e.phone # n.phone
           /\ e.services # <<>> /\ n.services # <<>> /\ e.services # n.services
           /\ ~Truthy(e.email) /\ Truthy(n.email)
           /\ lastAdd.result.phone = e.phone
           /\ lastAdd.result.email = n.email

\* How often the provenance entry e occurs in a sources list.
Occurrences(e, sources) == Cardinality({i \in DOMAIN sources : sources[i] = e})

\* How often e occurs in the records stored under the keys ks.
RECURSIVE StoredOccurrences(_, _)
StoredOccurrences(e, ks) ==
    IF ks = {} THEN 0
    ELSE LET k == CHOOSE x \in ks : TRUE
         IN  Occurrences(e, index[k].sources) + StoredOccurrences(e, ks \ {k})

\* How often e occurs in the first n records passed to add.
RECURSIVE AddedOccurrences(_, _)
AddedOccurrences(e, n) ==
    IF n = 0 THEN 0
    ELSE Occurrences(e, addLog[n].sources) + AddedOccurrences(e, n - 1)

\* Every provenance entry a record of the universe carries.
ProvenanceEntries == UNION {{p.sources[i] : i \in DOMAIN p.sources} : p \in Universe}

\* C13: a merged record's sources are the base's followed by the secondary's,
\* nothing dropped, replaced or de-duplicated; consequently after any sequence of
\* add calls the canonical records hold exactly the provenance entries, as a
\* multiset, of all records ever added.
C13_ProvenanceAccumulates ==
    /\ Merged =>
           LET e == lastAdd.existing
               n == Last(addLog)
           IN  lastAdd.result.sources \in {e.sources \o n.sources,
                                           n.sources \o e.sources}
    /\ \A s \in ProvenanceEntries :
           StoredOccurrences(s, DOMAIN index) = AddedOccurrences(s, Len(addLog))


\* The providers a find_duplicates result lists.
Listed(matches) == {matches[i].provider : i \in DOMAIN matches}

\* The indexed record the query's phone leads to, if any.
PhoneRecords(q) == IF PhoneHit(q) THEN {index[phone_index[q.phone]]} ELSE {}

\* The indexed record the query's website leads to, if any.
UrlRecords(q) == IF UrlHit(q) THEN {index[url_index[q.website_url]]} ELSE {}

\* Whether the token-Jaccard similarity of two names is above 0.8.
JaccardAbove80(name1, name2) ==
    LET a == Tokens(name1)
        b == Tokens(name2)
    IN  a # {} /\ b # {} /\ 5 * Cardinality(a \cap b) > 4 * Cardinality(a \cup b)

\* The indexed records in the query's city whose name is similar to the query's.
FuzzyRecords(q) ==
    {e \in get_all : StrLower(e.city) = StrLower(q.city) /\ JaccardAbove80(q.name, e.name)}

ScoreEq(a, b) == a.num * b.den = b.num * a.den

C15_ExtraTokensFuzzyMatch ==
    found.called =>
        LET q == found.query
        IN  ( /\ ~KeyHit(q) /\ ~PhoneHit(q) /\ ~UrlHit(q)
              /\ \E e \in get_all :
                     /\ StrLower(e.city) = StrLower(q.city)
                     /\ Tokens(e.name) # {}
                     /\ Tokens(e.name) \subseteq Tokens(q.name)
                     /\ Tokens(e.name) # Tokens(q.name) )
            => /\ found.matches # <<>>
               /\ found.matches[1].match_reasons = <<"fuzzy_name">>

\* C16: a get whose attempts all end in a timeout or a connection error (and whose
\* acquire calls all return) makes exactly max_retries attempts, each after
\* acquire has returned and each followed by one record_failure, sleeps at least
\* 2^attempt seconds after every failed attempt but the last, and then raises
\* HttpError; no get makes more than max_retries attempts.
C16_ExhaustsRetriesOnExceptions ==
    [][ \A t \in HttpTasks :
            LET g == http[t]
                h == http'[t]
            IN  /\ (pc'[t] = "request" /\ pc[t] # "request") =>
                       /\ ret'[t] = "ok"
                       /\ request_counts'[h.domain] = request_counts[h.domain] + 1
                /\ h.attempts_made = g.attempts_made + 1 =>
                       /\ pc[t] = "request"
                       /\ ~IsResponse(h.last_outcome) =>
                              /\ failure_counts'[g.domain] = failure_counts[g.domain] + 1
                              /\ h.failures_recorded = g.failures_recorded + 1
                              /\ h.successes_recorded = g.successes_recorded
                              /\ IF g.attempt < max_retries - 1
                                 THEN /\ h.active /\ pc'[t] = "retry_sleep"
                                      /\ h.slept_at = now /\ h.sleeps = g.sleeps + 1
                                 ELSE /\ ~h.active /\ pc'[t] = "idle"
                                      /\ h.sleeps = g.sleeps
                                      /\ h.result.kind = "HttpError"
                /\ h.attempt = g.attempt + 1 =>
                       /\ pc[t] = "retry_sleep"
                       /\ 2 * (now - g.slept_at) >= 5 * Pow(2, g.attempt)
                /\ (g.active /\ ~h.active /\ h.all_exceptions
                        /\ h.result.kind # "RateLimitExceeded") =>
                       /\ h.attempts_made = max_retries
                       /\ h.failures_recorded = max_retries
                       /\ h.sleeps = max_retries - 1
                       /\ h.result.kind = "HttpError"
                /\ h.attempts_made <= max_retries
                /\ h.attempt < max_retries ]_vars

\* A get that has raised HttpError after three timeouts or connection errors and
\* two sleeps.
C16_Witness ==
    \E t \in HttpTasks :
        /\ ~http[t].active
        /\ http[t].result.kind = "HttpError"
        /\ http[t].all_exceptions
        /\ http[t].attempts_made = max_retries
        /\ http[t].failures_recorded = max_retries
        /\ http[t].sleeps = max_retries - 1
        /\ failure_counts[http[t].domain] = max_retries

\* C17: every attempt of get that completes is followed by exactly one call of
\* record_success or record_failure for the domain: record_success when the
\* status is 2xx, record_failure for any other status, a timeout or a connection
\* error; nothing else in get touches the failure count.
C17_OneRecordPerAttempt ==
    [][ /\ \A t \in HttpTasks :
               LET g == http[t]
                   h == http'[t]
               IN  /\ h.attempts_made = g.attempts_made + 1 =>
                          IF h.last_outcome = "200"
                          THEN /\ h.successes_recorded = g.successes_recorded + 1
                               /\ h.failures_recorded = g.failures_recorded
                               /\ failure_counts' =
                                      [failure_counts EXCEPT ![g.domain] = 0]
                          ELSE /\ h.successes_recorded = g.successes_recorded
                               /\ h.failures_recorded = g.failures_recorded + 1
                               /\ failure_counts' =
                                      [failure_counts EXCEPT ![g.domain] = @ + 1]
                   /\ h.attempts_made = h.successes_recorded + h.failures_recorded
        /\ failure_counts' # failure_counts =>
               \E t \in HttpTasks : http'[t].attempts_made = http[t].attempts_made + 1
      ]_vars

\* A get that ended after a failed attempt and a successful one: one record_failure,
\* then one record_success, which left the failure count at 0.
C17_Witness ==
    \E t \in HttpTasks :
        /\ ~http[t].active
        /\ http[t].attempts_made = 2
        /\ http[t].failures_recorded = 1
        /\ http[t].successes_recorded = 1
        /\ http[t].last_outcome = "200"
        /\ failure_counts[http[t].domain] = 0

\* backoff(n) of the interval formula, in ticks: 0 for n = 0, else
\* min(max_delay, initial_delay * multiplier^n); 1.0 s * 2^n is 5 * 2^(n-1) ticks.
SpecBackoff(n) ==
    IF n = 0 THEN 0
    ELSE Min2(BACKOFF_CONFIG.max_delay, 5 * Pow(2, n - 1))

\* max(60 / requests_per_minute, delay_between_requests, backoff(n)), in ticks.
SpecInterval(config, n) ==
    Max2(Max2(TicksPerMinute \div config.requests_per_minute,
              config.delay_between_requests),
         SpecBackoff(n))

\* The interval acquire computes is the formula, does not fall as the failure
\* count grows, and its backoff term stops at max_delay.
C18_IntervalFormula ==
    \A s \in SourceTypes : \A n \in 0..MaxFailureCount :
        LET config == ConfigOf(s)
        IN  /\ MinInterval(config, n) = SpecInterval(config, n)
            /\ n > 0 => MinInterval(config, n) >= MinInterval(config, n - 1)
            /\ MinInterval(config, n)
                   <= Max2(MinInterval(config, 0), BACKOFF_CONFIG.max_delay)
            /\ n >= 6 => MinInterval(config, n)
                             = Max2(MinInterval(config, 0), BACKOFF_CONFIG.max_delay)

\* C18: the interval acquire enforces for a domain is max(60/requests_per_minute,
\* delay_between_requests, backoff(failure count)), non-decreasing in the failure
\* count and capped; an acquire that found a failure recorded for the domain
\* returns no earlier than 2 seconds (5 ticks) after the domain's last request.
C18_BackoffInterval ==
    [][ /\ C18_IntervalFormula
        /\ \A t \in Tasks :
               AcquireReturned(t) =>
                   /\ now - last_request[call'[t].domain]
                          >= SpecInterval(ConfigOf(call'[t].source_type),
                                          FailureCountRead(t))
                   /\ FailureCountRead(t) >= 1 =>
                          now - last_request[call'[t].domain] >= 5 ]_vars

\* An acquire has just returned for a domain that had one request before, which
\* was recorded as failed: 2 seconds after that request.
C18_Witness ==
    \E d \in Domains, t \in Tasks :
        /\ pc[t] = "request" /\ call[t].domain = d
        /\ failure_counts[d] = 1
        /\ request_counts[d] = 2
        /\ last_request[d] = now
        /\ now = StartTime + 5

\* Task t reports the outcome of its request in this step.
RecordStep(t) == pc[t] = "request" /\ pc'[t] = "idle"

\* C19: record_success(domain) sets the domain's failure count to 0 and
\* record_failure(domain) adds exactly 1 to it; either leaves the other domains'
\* failure counts and all request counts, daily counts and timestamps unchanged;
\* nothing else changes a failure count; so the failure count of a domain is the
\* number of failures recorded for it since its last recorded success.
C19_FailureCountTracksRecords ==
    [][ /\ \A t \in Tasks :
               RecordStep(t) =>
                   LET d == call[t].domain
                   IN  /\ IF recorded'[d] = 0
                          THEN failure_counts'[d] = 0
                          ELSE /\ recorded'[d] = recorded[d] + 1
                               /\ failure_counts'[d] = failure_counts[d] + 1
                       /\ \A e \in Domains \ {d} :
                              failure_counts'[e] = failure_counts[e]
                       /\ UNCHANGED <<last_request, request_counts, daily_counts>>
        /\ failure_counts' # failure_counts => \E t \in Tasks : RecordStep(t)
        /\ failure_counts' = recorded' ]_vars

\* Two failures recorded for one domain, and a success for the other, whose count
\* is 0 after a request.
C19_Witness ==
    /\ \A t \in Tasks : pc[t] = "idle"
    /\ failure_counts["a.example"] = 2
    /\ request_counts["a.example"] = 2
    /\ failure_counts["b.example"] = 0
    /\ request_counts["b.example"] >= 1

\* C20: can_fetch returns False only on an entry parsed from a robots.txt body
\* (status 200 from the network, or an unexpired file of the disk cache) whose
\* rules disallow the URL; an entry made after a request for robots.txt that ended
\* in another status or in an error allows every URL of the domain.
C20_FailOpen ==
    /\ \A t \in Tasks :
           rret[t].via # "none" =>
               /\ rret[t].value = FALSE =>
                      /\ rret[t].origin \in {"network_200", "disk"}
                      /\ rret[t].parser = "disallow_private"
                      /\ rret[t].path = "/private"
               /\ rret[t].origin = "network_failed" => rret[t].value = TRUE
    /\ \A d \in RobotsDomains :
           robots_cache[d].origin = "network_failed" =>
               \A path \in RobotsPaths : ParserCanFetch(robots_cache[d].parser, path)

\* One task was refused /private on a parsed robots.txt; later the request for
\* robots.txt failed and another task was allowed /private.
C20_Witness ==
    \E t1, t2 \in Tasks :
        /\ rret[t1].via = "network" /\ rret[t1].origin = "network_failed"
        /\ rret[t1].path = "/private" /\ rret[t1].value = TRUE
        /\ rret[t2].value = FALSE /\ rret[t2].via # "none"
        /\ rret[t2].path = "/private"

\* A network fetch of d's robots.txt ended less than the TTL ago, and if the memory
\* cache has been emptied since, it was by a new RobotsChecker over the same
\* cache directory.
CachedForTtl(d) ==
    /\ robots_log[d].done
    /\ rnow - robots_log[d].last_done < cache_ttl_hours
    /\ ~robots_log[d].cleared \/ robots_log[d].rebuilt

\* C21: the policy that results from a robots.txt request, allow-all after a
\* status other than 200 or an error included, is cached in memory and on disk for
\* the TTL: within the TTL neither the same RobotsChecker nor a new one over the
\* same cache directory fetches the domain's robots.txt again.
C21_NegativeResultCachedOnDisk ==
    [][ \A t \in Tasks :
            FetchStarts(t) => ~CachedForTtl(rcall'[t].domain) ]_vars


\* C22: a cached entry, from the memory cache or from the disk cache, answers a
\* call only while now - fetched_at < TTL, fetched_at of a disk entry being the
\* time the file was written; an entry of age TTL or more is never used.
C22_SameTtlCheckBothCaches ==
    \A t \in Tasks :
        rret[t].via \in {"memory", "disk"} => rret[t].age < cache_ttl_hours

\* C23: within one search call, across its queries, locations, pages and both the
\* text-search and the nearby-search phase, fetch(place_id) is called at most
\* once for any place id.
C23_FetchOncePerPlace ==
    \A p \in PlaceIds : search.fetched[p] <= 1

\* A search that fetched a place in the text-search phase and skipped it as seen
\* when a nearby search listed it again.
C23_Witness ==
    /\ search.stage = "done"
    /\ "nearby" \in search.seen_skips
    /\ \E p \in PlaceIds : search.fetched[p] = 1

\* C24: every search call yields finitely many results and then ends, whatever
\* the provider answers: any statuses, any pages, any continuation tokens.
C24_SearchTerminates ==
    (search.stage = "running") ~> (search.stage = "done")

\* A search that ended although every page came with a continuation token and no
\* place: the daily limit of google_places stopped the requests.
C24_Witness ==
    /\ search.stage = "done"
    /\ search.daily_count = DailyLimit
    /\ search.last.error = "RateLimitExceeded"
    /\ \A p \in PlaceIds : search.fetched[p] = 0
    /\ search.seen_place_ids = {}
    /\ search.yielded >= 1

\* The source kind a source tags its records with.
OwnKind(source) == IF source = "google_places" THEN "GOOGLE_MAPS" ELSE "WEBSITE"

\* C25: every result a source yields is either a success whose record has a
\* non-empty provenance list with an entry of the source's own kind, or an error
\* result with an error message and no record.
C25_ResultsCarryProvenance ==
    search.yielded > 0 =>
        LET r == search.last
        IN  \/ /\ r.provider # NoProvider
               /\ r.error = None
               /\ r.provider.sources # <<>>
               /\ OwnKind(search.source) \in Range(r.provider.sources)
            \/ /\ r.provider = NoProvider
               /\ r.error \notin {None, ""}

\* A search of the map API that has yielded an error result and then a record.
C25_Witness ==
    /\ search.source = "google_places"
    /\ search.yielded >= 2
    /\ search.results_count = 1
    /\ Success(search.last)
    /\ search.last.provider.sources = <<"GOOGLE_MAPS">>

\* A string with its letter case and the amount of its whitespace taken away.
FoldCaseAndSpace(s) == CollapseSpace(StrStrip(StrLower(s)))

\* Two providers whose name, address and city differ in letter case or in
\* whitespace only.
DifferInCaseOrSpaceOnly(a, b) ==
    /\ FoldCaseAndSpace(a.name) = FoldCaseAndSpace(b.name)
    /\ FoldCaseAndSpace(a.address) = FoldCaseAndSpace(b.address)
    /\ FoldCaseAndSpace(a.city) = FoldCaseAndSpace(b.city)

\* C26: two providers whose name, address and city differ only in letter case or
\* in whitespace have the same identity key, and adding the second to a
\* deduplicator that holds the first returns is_new = False.
C26_KeyIgnoresCaseAndWhitespace ==
    \A i, j \in DOMAIN addLog :
        (i < j /\ DifferInCaseOrSpaceOnly(addLog[i], addLog[j])) =>
            /\ KeyOf(addLog[i]) = KeyOf(addLog[j])
            /\ (j = Len(addLog) => lastAdd.how # "new")


\* The characters of a phone string of PhoneUniverse.
FormatOf(phone) == CHOOSE f \in PhoneFormats : Str(f) = phone

\* The ten digits of the national number a phone string writes.
RECURSIVE LastTen(_)
LastTen(s) == IF Len(s) <= 10 THEN s ELSE LastTen(Tail(s))

NationalNumber(format) ==
    LastTen(SelectSeq(format, LAMBDA c : c \in Range(DIGITS)))

\* Two providers that differ in the formatting of one phone number and in
\* nothing else.
DifferInPhoneFormatOnly(a, b) ==
    /\ [a EXCEPT !.phone = None] = [b EXCEPT !.phone = None]
    /\ NationalNumber(FormatOf(a.phone)) = NationalNumber(FormatOf(b.phone))

\* C27: normalize_phone gives every formatting of one number the same output,
\* +1 and the ten digits, and a provider that differs from a stored one only in
\* the formatting of its phone is merged into it: add returns is_new = False and
\* one record is held.
C27_PhoneFormatsMerge ==
    \A i, j \in DOMAIN addLog :
        (i < j /\ DifferInPhoneFormatOnly(addLog[i], addLog[j])) =>
            /\ normalize_phone(FormatOf(addLog[i].phone))
                   = normalize_phone(FormatOf(addLog[j].phone))
            /\ normalize_phone(FormatOf(addLog[j].phone))
                   = <<"+", "1">> \o NationalNumber(FormatOf(addLog[j].phone))
            /\ (j = Len(addLog) =>
                   /\ lastAdd.how # "new"
                   /\ lastAdd.is_new = FALSE
                   /\ lastAdd.key = KeyOf(addLog[i])
                   /\ count = 1)

\* The bare ten digits, then the eleven digits with dashes, then the form with
\* +1, parentheses and blanks: one record is held after the three adds.
C27_Witness ==
    /\ Len(addLog) = 3
    /\ addLog[1].phone = "3051234567"
    /\ addLog[2].phone = "1-305-123-4567"
    /\ addLog[3].phone = "+1 (305) 123-4567"
    /\ lastAdd.is_new = FALSE
    /\ count = 1

\* The source type's daily count has reached its daily limit.
QuotaExhausted(s) == DailyLimitOf(s) # 0 /\ daily_counts[s] >= DailyLimitOf(s)

\* The step is a call of reset_daily_counts.
IsDailyReset ==
    /\ daily_counts' = [s \in SourceTypes |-> 0]
    /\ UNCHANGED <<now, last_request, request_counts, failure_counts, lock, pc, call, ret>>

\* C28: an acquire fails with RateLimitExceeded only when its source type's daily
\* count is at the limit; from then on the count stays at the limit, and every
\* acquire for that source type that gets to its check fails and admits no
\* request, until reset_daily_counts is called; no other step lowers a daily
\* count.
C28_QuotaStaysExhausted ==
    [][ /\ \A t \in Tasks :
               ret'[t] = "RateLimitExceeded" /\ (ret[t] # ret'[t] \/ pc[t] # pc'[t]) =>
                   /\ \E s \in SourceTypes : QuotaExhausted(s)
                   /\ pc[t] = "lock_wait" => QuotaExhausted(call[t].source_type)
                   /\ UNCHANGED daily_counts
        /\ \A s \in SourceTypes :
               /\ daily_counts'[s] < daily_counts[s] => IsDailyReset
               /\ QuotaExhausted(s) =>
                      IF daily_counts'[s] # daily_counts[s]
                      THEN IsDailyReset
                      ELSE \A t \in Tasks :
                               /\ pc[t] = "sleeping" => call[t].source_type # s
                               /\ pc[t] = "lock_wait" /\ pc'[t] # "lock_wait"
                                      /\ call[t].source_type = s =>
                                      ret'[t] = "RateLimitExceeded"
                               /\ pc[t] # pc'[t] /\ pc'[t] \in {"sleeping", "request"} =>
                                      call'[t].source_type # s ]_vars

\* Both tasks have been refused at the daily limit, one after the other, with no
\* reset in between: the count is still at the limit.
C28_Witness ==
    /\ \A t \in Tasks : ret[t] = "RateLimitExceeded" /\ pc[t] = "idle"
    /\ daily_counts["google_places"] = DailyLimit
    /\ request_counts["a.example"] + request_counts["b.example"] = DailyLimit

\* C29: what a finished run of the search command has handed to the store is
\* the deduplicator's final set of records, one entry per record, each as merged.
C29_SavedIsFinalCanonicalSet ==
    run.saved.written =>
        /\ Range(run.saved.providers) = get_all
        /\ Len(run.saved.providers) = count

\* C30: the state of the RateLimiter changes only under its lock: while an
\* acquire call is between its read of the state and its update, asleep with the
\* lock held, no record_success, record_failure or reset_daily_counts takes
\* effect.
C30_NoMutationWhileAcquireSleeps ==
    [][ \A t \in Tasks :
            pc[t] = "sleeping" /\ pc'[t] = "sleeping" /\ lock = t =>
                UNCHANGED <<last_request, request_counts, daily_counts,
                            failure_counts>> ]_vars

\* C31: every value held in _phone_index and in _url_index is a key of _index, so
\* the lookup self._index[existing_key] of a phone or url match finds a record.
C31_IndexValuesAreStoreKeys ==
    /\ \A p \in DOMAIN phone_index : phone_index[p] \in DOMAIN index
    /\ \A u \in DOMAIN url_index : url_index[u] \in DOMAIN index

\* A record has been merged into the one its phone resolved to, under a key other
\* than its own, and both indexes hold entries.
C31_Witness ==
    /\ lastAdd.how = "phone" /\ ~lastAdd.raised
    /\ KeyOf(Last(addLog)) # lastAdd.key
    /\ phone_index[Last(addLog).phone] = lastAdd.key
    /\ lastAdd.key \in DOMAIN index
    /\ DOMAIN url_index # {}

\* C32: an acquire(source_type, domain) that returns sets _last_request[domain] to
\* the current time, adds one to _request_counts[domain] and one to
\* _daily_counts[source_type], and changes no failure count and no entry of
\* another domain or source type; every attempt of get is made after such a
\* return of its own, so each attempt costs one unit of the daily count.
C32_AcquireFrame ==
    [][ \A t \in HttpTasks :
            /\ AcquireReturned(t) =>
                   LET d == call'[t].domain
                       s == call'[t].source_type
                   IN  /\ d = http'[t].domain /\ s = http'[t].source_type
                       /\ last_request' = [last_request EXCEPT ![d] = now]
                       /\ request_counts' = [request_counts EXCEPT ![d] = @ + 1]
                       /\ daily_counts' = [daily_counts EXCEPT ![s] = @ + 1]
                       /\ failure_counts' = failure_counts
                       /\ http'[t].attempts_made =
                              IF pc[t] = "idle" THEN 0 ELSE http[t].attempts_made
            /\ http'[t].attempts_made = http[t].attempts_made + 1 =>
                   /\ pc[t] = "request"
                   /\ pc'[t] # "request"
                   /\ UNCHANGED <<last_request, request_counts, daily_counts>> ]_vars

\* The third attempt of a get is under way: three acquire calls have returned for
\* it, the last one just now, and three units of the daily count are used.
C32_Witness ==
    \E t \in HttpTasks :
        /\ http[t].active /\ pc[t] = "request"
        /\ http[t].attempts_made = 2
        /\ http[t].source_type = "google_places"
        /\ daily_counts["google_places"] = 3
        /\ request_counts[http[t].domain] = 3
        /\ last_request[http[t].domain] = now
        /\ \A d \in Domains \ {http[t].domain} : request_counts[d] = 0

\* C33: a page request that carries a next_page_token is issued no earlier than
\* 2 seconds after the token came in, on every page transition, and goes through
\* RateLimiter.acquire as every page request does.
C33_TokenDelayBeforeUse ==
    [][ LET s == search
            t == search'
        IN  /\ (s.sub = "page" /\ s.next_page_token /\ t # s) =>
                   /\ s.token_age >= page_token_delay
                   /\ \/ t.daily_count > s.daily_count
                      \/ /\ t.last = ErrorResult("RateLimitExceeded")
                         /\ t.yielded = s.yielded + 1
            /\ (s.sub = "places" /\ t.sub = "page") => FALSE
            /\ (s.sub = "token_sleep" /\ t.sub = "page") =>
                   s.next_page_token /\ t.next_page_token ]_vars

\* The second page of a sub-search has come in: its request carried the token of
\* the first page and was sent after the two seconds.
C33_Witness ==
    /\ search.stage = "running" /\ search.sub = "places"
    /\ search.results_yielded >= 1
    /\ search.daily_count >= 3
    /\ search.token_age = 0
    /\ Len(search.places) = MaxPageLen

\* C34: when acquire refuses with RateLimitExceeded at the start of an attempt, get
\* ends there with that exception: the attempt sends no request, nothing is recorded
\* as success or failure, no retry sleep is started, and the call makes no further
\* attempt.
C34_QuotaErrorPropagates ==
    [][ \A t \in HttpTasks :
          /\ (now' = now /\ pc[t] \in {"idle", "retry_sleep"}
                /\ ret'[t] = "RateLimitExceeded") =>
                LET before == IF pc[t] = "idle" THEN NoGet ELSE http[t]
                    after == http'[t]
                IN  /\ ~after.active
                    /\ after.result.kind = "RateLimitExceeded"
                    /\ pc'[t] = "idle"
                    /\ after.attempts_made = before.attempts_made
                    /\ after.failures_recorded = before.failures_recorded
                    /\ after.successes_recorded = before.successes_recorded
                    /\ after.sleeps = before.sleeps
                    /\ failure_counts' = failure_counts
                    /\ recorded' = recorded
                    /\ UNCHANGED <<last_request, request_counts, daily_counts>>
          /\ (http[t].result.kind = "RateLimitExceeded" /\ http'[t] # http[t]) =>
                /\ ~http[t].active
                /\ pc[t] = "idle"
                /\ http'[t].attempt = 0
                /\ http'[t].attempts_made = 0 ]_vars

\* A get whose second attempt was refused: the first attempt used up the day's quota
\* and failed, the call slept, and acquire raised at the start of the retry.
C34_Witness ==
    \E t \in HttpTasks :
        /\ http[t].result.kind = "RateLimitExceeded"
        /\ ~http[t].active
        /\ http[t].attempt = 1
        /\ http[t].attempts_made = 1
        /\ http[t].sleeps = 1
        /\ http[t].failures_recorded = 1
        /\ failure_counts[http[t].domain] >= 1

\* C35: every canonical record with a phone is the one _phone_index gives for that
\* phone, and every canonical record with a website url is the one _url_index gives
\* for that url, phones and urls gained in a merge included; so no two canonical
\* records hold the same phone.
C35_IndexesCoverStore ==
    /\ \A k \in DOMAIN index :
           /\ Truthy(index[k].phone) =>
                  /\ index[k].phone \in DOMAIN phone_index
                  /\ phone_index[index[k].phone] = k
           /\ Truthy(index[k].website_url) =>
                  /\ index[k].website_url \in DOMAIN url_index
                  /\ url_index[index[k].website_url] = k
    /\ \A j, k \in DOMAIN index :
           (j # k /\ Truthy(index[j].phone)) => index[j].phone # index[k].phone

\* C36: every entry p -> k of _phone_index points to a canonical record whose phone
\* is p, and every entry u -> k of _url_index to one whose website url is u; a merge
\* leaves no entry pointing at a record that no longer carries the value.
C36_IndexEntriesAreCurrent ==
    /\ \A p \in DOMAIN phone_index :
           /\ phone_index[p] \in DOMAIN index
           /\ index[phone_index[p]].phone = p
    /\ \A u \in DOMAIN url_index :
           /\ url_index[u] \in DOMAIN index
           /\ index[url_index[u]].website_url = u

\* Deduplicator.add as a function of the three dicts.
AddTo(d, provider) ==
    LET m == FindMatch(d.index, d.phone_index, d.url_index, provider) IN
    IF m.how = "new"
    THEN [index |-> Put(d.index, m.key, provider),
          phone_index |-> IF Truthy(provider.phone)
                          THEN Put(d.phone_index, provider.phone, m.key)
                          ELSE d.phone_index,
          url_index |-> IF Truthy(provider.website_url)
                        THEN Put(d.url_index, provider.website_url, m.key)
                        ELSE d.url_index]
    ELSE IF MergeRaises(d.index[m.key], provider)
    THEN d
    ELSE [d EXCEPT !.index = StoreMerged(d.index, m.key, KeyOf(provider),
                                         merge(d.index[m.key], provider))]

\* The dicts after the first n adds of `providers` to an empty Deduplicator.
RECURSIVE AddAll(_, _)
AddAll(providers, n) ==
    IF n = 0
    THEN [index |-> EmptyDict, phone_index |-> EmptyDict, url_index |-> EmptyDict]
    ELSE AddTo(AddAll(providers, n - 1), providers[n])

\* The orders in which n providers can be added.
Orders(n) == {f \in [1..n -> 1..n] : \A i, j \in 1..n : f[i] = f[j] => i = j}

\* C37: count() after adding a multiset of providers is the same for every order
\* of the add calls.
C37_CountIsOrderIndependent ==
    /\ AddAll(addLog, Len(addLog)).index = index
    /\ \A f \in Orders(Len(addLog)) :
           LET reordered == [i \in 1..Len(addLog) |-> addLog[f[i]]]
           IN  Cardinality(DOMAIN AddAll(reordered, Len(addLog)).index) = count

\* C38: an acquire call whose own domain's minimum interval has elapsed is not held
\* up by another acquire call that is sleeping out the interval of a different
\* domain: how long a call waits depends on its own domain's last request and
\* failure count only.
C38_DomainsDoNotDelayEachOther ==
    \A t, u \in Tasks :
        LET d == call[t].domain
            own_interval == MinInterval(ConfigOf(call[t].source_type),
                                        failure_counts[d])
        IN  (/\ pc[t] = "lock_wait"
             /\ pc[u] = "sleeping"
             /\ call[u].domain # d
             /\ now < call[u].sleep_until) =>
                now - last_request[d] < own_interval

\* C39: one call of search hands the consumer at most max_results successful
\* results, counted over every sub-search of both phases and every page, and
\* fetches no place details once that many have been handed over.
C39_AtMostMaxResults ==
    [][ LET s == search
            t == search'
        IN  t.source = "google_places" =>
                /\ t.successes <= t.max_results
                /\ t.fetched # s.fetched => s.successes < s.max_results ]_vars

\* search has ended on its max_results-th success with a sub-search still to start
\* and a place never fetched.
C39_Witness ==
    /\ search.source = "google_places" /\ search.stage = "done"
    /\ search.max_results >= 1
    /\ search.successes = search.max_results
    /\ search.k <= Len(SubSearches(search.is_nyc, search.use_coordinates))
    /\ \E p \in PlaceIds : search.fetched[p] = 0

\* C40: merge(existing, incoming) returns a merged record for every pair of
\* records, one with and one without provenance included; an add that matches a
\* stored record therefore never ends in an error, and it leaves the merged record
\* in the store with no index half-written.
C40_MergeNeverFails ==
    lastAdd.how \in {"exact", "phone", "url"} =>
        /\ ~lastAdd.raised
        /\ lastAdd.is_new = FALSE
        /\ lastAdd.result = merge(lastAdd.existing, Last(addLog))
        /\ index[lastAdd.key] = lastAdd.result
        /\ \A p \in DOMAIN phone_index : phone_index[p] \in DOMAIN index
        /\ \A u \in DOMAIN url_index : url_index[u] \in DOMAIN index
====
